---- MODULE Spec2Model ----
(***************************************************************************)
(* A model of pkg/cloud/cloud.go: the cloud orchestration layer of the     *)
(* EBS CSI driver.  The provider (the EC2 interface, cloud.go 176-189) is  *)
(* the environment: its volumes, modifications, attachments and snapshots  *)
(* are state, and each of its calls is answered from that state, or fails  *)
(* by a nondeterministic choice.  Every Cloud operation is a small state   *)
(* machine per caller: one step per provider call the code makes, so that  *)
(* concurrent callers interleave between provider calls.                   *)
(*                                                                         *)
(* Specifications:                                                         *)
(*   SpecDisk    CreateDisk / DeleteDisk / GetDiskByName, two callers      *)
(*   SpecCreate  CreateDisk alone, one caller, the full range of options   *)
(*   SpecResize  ResizeDisk, two callers on the provider's volumes         *)
(*   SpecAttach  AttachDisk with the device allocator                      *)
(*   SpecSnap    ListSnapshots                                             *)
(***************************************************************************)
EXTENDS Integers, Sequences, FiniteSets, TLC

VARIABLES
    volumes,      \* provider: the volumes, in listing order
    nextID,       \* provider: the next volume ID it hands out
    cd,           \* per caller: the CreateDisk/DeleteDisk/GetDiskByName call in progress
    mods,         \* provider: per volume ID, its modification records, oldest first
    rz,           \* per caller: the ResizeDisk call in progress
    attachments,  \* provider: the volume attachments
    devices,      \* device allocator: the (node, volume, path) bindings it holds
    at,           \* per caller: the AttachDisk call in progress
    lastPath,     \* history: per (volume, node), the path of the last successful AttachDisk
    snapshots,    \* provider: the snapshots, in listing order
    sn,           \* the ListSnapshots call in progress
    pl,           \* a paginated lookup in progress, with the provider's pages
    pv            \* a probe of WaitForAttachmentState, with the attachments it saw

vars == <<volumes, nextID, cd, mods, rz, attachments, devices, at, lastPath, snapshots,
          sn, pl, pv>>

\* What the operations on volumes, on modifications, on attachments and on
\* snapshots each leave alone.
notDisk == <<mods, rz, attachments, devices, at, lastPath, snapshots, sn, pl, pv>>
notResize == <<nextID, cd, attachments, devices, at, lastPath, snapshots, sn, pl, pv>>
notAttach == <<nextID, cd, mods, rz, snapshots, sn, pl, pv>>
notSnap == <<volumes, nextID, cd, mods, rz, attachments, devices, at, lastPath, pl, pv>>
notPaged == <<volumes, nextID, cd, mods, rz, attachments, devices, at, lastPath,
              snapshots, sn, pv>>
notProbe == <<volumes, nextID, cd, mods, rz, attachments, devices, at, lastPath,
              snapshots, sn, pl>>

(***************************************************************************)
(* Bounds of the model.                                                    *)
(***************************************************************************)
\* Model byte units in one GiB (util.GiB is 2^30; scaled so sizes stay small).
GiB == 4
\* Volumes the provider creates in one run (its quota).
MaxVolumes == 2
\* Volumes the provider scans per DescribeVolumes page.
PageSize == 1
\* Width of the machine integer (int64 in the source, scaled).
IntBits == 16

(***************************************************************************)
(* Program constants.                                                      *)
(***************************************************************************)
MinTotalIOPS == 100
MaxTotalIOPS == 20000
\* waitForVolume: checkInterval and checkTimeout, in seconds.
CheckInterval == 3
CheckTimeout == 60

\* The concurrent callers of the Cloud interface: the claims speak of two.
Callers == {1, 2}
Names == {"vol-a", "vol-b"}
Zones == {"us-test-1a", "us-test-1b"}

VolumeTypeIO1 == "io1"
VolumeTypeIO2 == "io2"
VolumeTypeGP2 == "gp2"
VolumeTypeST2 == "st2"
VolumeTypeStandard == "standard"
DefaultVolumeType == VolumeTypeGP2

\* The errors of cloud.go 103-124, and the wrapped errors by the place that wraps them.
ErrNil == "nil"
ErrMultiDisks == "ErrMultiDisks"
ErrDiskExistsDiffSize == "ErrDiskExistsDiffSize"
ErrNotFound == "ErrNotFound"
ErrAlreadyExists == "ErrAlreadyExists"
ErrInvalidMaxResults == "ErrInvalidMaxResults"
ErrInvalidVolumeType == "invalid AWS VolumeType"
ErrGetZone == "failed to get availability zone"
ErrCreateVolume == "could not create volume in EC2"
ErrNoVolumeID == "volume ID was not returned by CreateVolume"
ErrNoSize == "disk size was not returned by CreateVolume"
ErrWaitAvailable == "failed to get an available volume in EC2"
ErrDeleteVolume == "DeleteDisk could not delete volume"
ErrProvider == "provider error"
ErrWaitTimeout == "timed out waiting for the condition"

(***************************************************************************)
(* util.BytesToGiB and util.RoundUpGiB (pkg/util, not among the sources).   *)
(***************************************************************************)
BytesToGiB(bytes) == bytes \div GiB

RoundUpGiB(bytes) == (bytes + GiB - 1) \div GiB

\* A machine integer: the value of x in IntBits-bit two's complement.
WrapInt(x) ==
    LET m == x % (2 ^ IntBits)
    IN IF m >= 2 ^ (IntBits - 1) THEN m - 2 ^ IntBits ELSE m

(***************************************************************************)
(* The provider's DescribeVolumes.  A filter is [kind, val]: by volume ID  *)
(* or by the CSIVolumeName tag.  The provider scans its volumes PageSize   *)
(* at a time, returns those of the page that match and a continuation      *)
(* token (the scan position; 0 is the empty token) while volumes remain.   *)
(***************************************************************************)
Matches(v, f) ==
    IF f.kind = "id" THEN v.id = f.val ELSE v.name = f.val

DescribeVolumesPage(vs, f, token) ==
    LET last == IF token + PageSize < Len(vs) THEN token + PageSize ELSE Len(vs)
        page == IF token < Len(vs) THEN SubSeq(vs, token + 1, last) ELSE <<>>
    IN [Volumes |-> SelectSeq(page, LAMBDA v : Matches(v, f)),
        NextToken |-> IF token + PageSize < Len(vs) THEN token + PageSize ELSE 0]

NoVolume == [id |-> 0, name |-> "", size |-> 0, zone |-> "", state |-> "", snap |-> ""]

RECURSIVE getVolumePages(_, _, _, _)
\* The loop of getVolume: fetch the page at the request's token, append, follow
\* a non-empty NextToken.  Yields the accumulated volumes and the token the
\* request is left with.
getVolumePages(vs, f, token, acc) ==
    LET response == DescribeVolumesPage(vs, f, token)
        got == acc \o response.Volumes
    IN IF response.NextToken = 0
       THEN [volumes |-> got, token |-> token]
       ELSE getVolumePages(vs, f, response.NextToken, got)

\* A mutant of getVolume: of several volumes found, the first is returned.
getVolume_FirstOfMany(vs, f, token) ==
    LET r == getVolumePages(vs, f, token, <<>>)
    IN IF Len(r.volumes) < 1
       THEN [err |-> ErrNotFound, vol |-> NoVolume, token |-> r.token]
       ELSE [err |-> ErrNil, vol |-> r.volumes[1], token |-> r.token]

\* getVolume on a request with filter f whose NextToken field holds `token`.
getVolume(vs, f, token) ==
    LET r == getVolumePages(vs, f, token, <<>>)
        l == Len(r.volumes)
    IN IF l > 1 THEN [err |-> ErrMultiDisks, vol |-> NoVolume, token |-> r.token]
       ELSE IF l < 1 THEN [err |-> ErrNotFound, vol |-> NoVolume, token |-> r.token]
       ELSE [err |-> ErrNil, vol |-> r.volumes[1], token |-> r.token]

(***************************************************************************)
(* The loops of getVolume (cloud.go 862-886), getInstance (888-922) and     *)
(* getSnapshot (924-948), page by page.  The provider answers a lookup      *)
(* with a script of pages: script[i] is the number of items on page i; the  *)
(* item j of page i is <<i, j>>; the response with page i carries the token *)
(* i while pages remain (0 is the empty token), and the request with token  *)
(* t is answered with page t + 1.  The provider fails the call number       *)
(* failAt, if any, with the code given.                                     *)
(***************************************************************************)
\* Pages of a script at most, and items of a page at most.
MaxPages == 3
MaxPerPage == 2

ErrMultiSnapshots == "ErrMultiSnapshots"
ErrListInstances == "error listing AWS instances"
ErrMultiInstances == "found more than one instance with the ID"

LookupKinds == {"volume", "instance", "snapshot"}

PageScripts == UNION {[1..n -> 0..MaxPerPage] : n \in 1..MaxPages}

NoItem == <<0, 0>>

IdlePaged ==
    [pc |-> "idle", kind |-> "", script |-> <<>>, failAt |-> 0, code |-> "",
     token |-> 0, sent |-> <<>>, acc |-> <<>>, counts |-> <<>>, err |-> ErrNil,
     found |-> FALSE, item |-> NoItem]

ProviderPage(script, token) ==
    [Items |-> [j \in 1..script[token + 1] |-> <<token + 1, j>>],
     NextToken |-> IF token + 1 < Len(script) THEN token + 1 ELSE 0]

\* The error a lookup returns when the provider fails a page with the code.
PagedFailure(kind, code) ==
    IF kind = "instance"
    THEN IF code = "InvalidInstanceID.NotFound" THEN ErrNotFound ELSE ErrListInstances
    ELSE ErrProvider

\* A mutant of ExactlyOne: of several items the first is taken.
ExactlyOne_FirstOfMany(kind, items) ==
    IF Len(items) < 1 THEN ErrNotFound ELSE ErrNil

\* The check on the items of all pages (cloud.go 879-883, 915-919, 941-945).
ExactlyOne(kind, items) ==
    IF Len(items) > 1
    THEN CASE kind = "volume" -> ErrMultiDisks
           [] kind = "instance" -> ErrMultiInstances
           [] OTHER -> ErrMultiSnapshots
    ELSE IF Len(items) < 1 THEN ErrNotFound
    ELSE ErrNil

PagedBegin(kind, script, failAt, code) ==
    /\ pl.pc = "idle"
    /\ pl' = [IdlePaged EXCEPT !.pc = "fetch", !.kind = kind, !.script = script,
                               !.failAt = failAt, !.code = code]
    /\ UNCHANGED notPaged

\* One turn of the loop: the call with the request as it is, the append of
\* its items, the test of its token, and past the loop the check and the
\* return.
PagedFetch ==
    /\ pl.pc = "fetch"
    /\ LET c == [pl EXCEPT !.sent = Append(@, pl.token)]
       IN IF Len(c.sent) = c.failAt
          THEN pl' = [c EXCEPT !.pc = "done", !.err = PagedFailure(c.kind, c.code)]
          ELSE LET response == ProviderPage(c.script, c.token)
                   items == c.acc \o response.Items
                   d == [c EXCEPT !.acc = items,
                                  !.counts = Append(@, Len(response.Items))]
                   err == ExactlyOne(d.kind, items)
               IN IF response.NextToken # 0
                  THEN pl' = [d EXCEPT !.token = response.NextToken]
                  ELSE IF err # ErrNil
                  THEN pl' = [d EXCEPT !.pc = "done", !.err = err]
                  ELSE pl' = [d EXCEPT !.pc = "done", !.found = TRUE, !.item = items[1]]
    /\ UNCHANGED notPaged

PagedReturn ==
    /\ pl.pc = "done"
    /\ pl' = IdlePaged
    /\ UNCHANGED notPaged

(***************************************************************************)
(* CreateDisk (cloud.go 439-527).                                          *)
(***************************************************************************)
NoDisk == [VolumeID |-> 0, CapacityGiB |-> 0, AvailabilityZone |-> "", SnapshotID |-> ""]

NoRequest == [AvailabilityZone |-> "", Size |-> 0, VolumeType |-> "", Iops |-> 0,
              SnapshotId |-> "", Name |-> ""]

NoCalls == [zones |-> 0, create |-> 0, describe |-> 0, delete |-> 0]

NoOptions == [name |-> "", vtype |-> "", cap |-> 0, rate |-> 0, zone |-> "", snap |-> ""]

\* A caller with no call in progress.
IdleCall ==
    [op |-> "none", pc |-> "idle", o |-> NoOptions, createType |-> "", iops |-> 0,
     zone |-> "", req |-> NoRequest, token |-> 0, probes |-> 0, volID |-> 0,
     size |-> 0, err |-> ErrNil, disk |-> NoDisk, success |-> FALSE,
     calls |-> NoCalls, matched |-> {}, code |-> "", returned |-> {},
     outcome |-> "", perr |-> ErrNil, seen |-> "", waitErr |-> ErrNil]

\* A mutant of CreateDiskValidate: an unknown volume type is passed on as it is.
CreateDiskValidate_PassUnknown(o) ==
    [ok |-> TRUE, createType |-> IF o.vtype = "" THEN DefaultVolumeType ELSE o.vtype,
     iops |-> 0]

\* The switch on diskOptions.VolumeType: the type to create and the IOPS, or
\* ok = FALSE for the default case.  The product is an int64 product: it wraps.
CreateDiskValidate(o) ==
    LET capacityGiB == BytesToGiB(o.cap)
        product == WrapInt(capacityGiB * o.rate)
        low == IF product < MinTotalIOPS THEN MinTotalIOPS ELSE product
        clamped == IF low > MaxTotalIOPS THEN MaxTotalIOPS ELSE low
    IN IF o.vtype \in {VolumeTypeGP2, VolumeTypeST2, VolumeTypeStandard}
       THEN [ok |-> TRUE, createType |-> o.vtype, iops |-> 0]
       ELSE IF o.vtype \in {VolumeTypeIO1, VolumeTypeIO2}
       THEN [ok |-> TRUE, createType |-> o.vtype, iops |-> clamped]
       ELSE IF o.vtype = ""
       THEN [ok |-> TRUE, createType |-> DefaultVolumeType, iops |-> 0]
       ELSE [ok |-> FALSE, createType |-> "", iops |-> 0]

\* The CreateVolumeInput built from the options, the checked type and the zone.
CreateVolumeInput(o, v, zone) ==
    [AvailabilityZone |-> zone, Size |-> BytesToGiB(o.cap), VolumeType |-> v.createType,
     Iops |-> IF v.iops > 0 THEN v.iops ELSE 0, SnapshotId |-> o.snap, Name |-> o.name]

\* CreateDisk up to the zone: the type switch; an unknown type returns at once.
CreateDiskBegin(p, o) ==
    /\ cd[p].pc = "idle"
    /\ LET v == CreateDiskValidate(o)
           c == [IdleCall EXCEPT !.op = "CreateDisk", !.o = o]
       IN cd' = [cd EXCEPT ![p] =
            IF ~v.ok
            THEN [c EXCEPT !.pc = "done", !.err = ErrInvalidVolumeType]
            ELSE [c EXCEPT !.pc = IF o.zone = "" THEN "zone" ELSE "create",
                           !.createType = v.createType, !.iops = v.iops,
                           !.zone = o.zone]]
    /\ UNCHANGED <<volumes, nextID, notDisk>>

\* randomAvailabilityZone (cloud.go 1161-1174): the listing fails, is empty
\* (zones[0] is then out of range: the call panics) or its first zone is taken.
CreateDiskZone(p) ==
    /\ cd[p].pc = "zone"
    /\ LET c == [cd[p] EXCEPT !.calls.zones = @ + 1]
       IN \/ cd' = [cd EXCEPT ![p] = [c EXCEPT !.pc = "done", !.err = ErrGetZone]]
          \/ cd' = [cd EXCEPT ![p] = [c EXCEPT !.pc = "panic"]]
          \/ \E z \in Zones :
                cd' = [cd EXCEPT ![p] = [c EXCEPT !.pc = "create", !.zone = z]]
    /\ UNCHANGED <<volumes, nextID, notDisk>>

(***************************************************************************)
(* The error translator (cloud.go 1004-1053): an error of the provider is  *)
(* told by its code; "" stands for no error, "InternalError" for any code  *)
(* the translator does not know.                                           *)
(***************************************************************************)
isAWSError(err, code) == err # "" /\ err = code

\* A mutant of isAWSErrorVolumeNotFound: no error is recognised.
isAWSErrorVolumeNotFound_Never(err) == FALSE

isAWSErrorVolumeNotFound(err) == isAWSError(err, "InvalidVolume.NotFound")

\* A mutant of isAWSErrorSnapshotNotFound: no error is told to be it.
isAWSErrorSnapshotNotFound_Never(err) == FALSE

isAWSErrorSnapshotNotFound(err) == isAWSError(err, "InvalidSnapshot.NotFound")

\* The provider's CreateVolume answers: a volume is created unless it fails.
CreateOutcomes(c) ==
    (IF nextID <= MaxVolumes THEN {"ok", "noID", "noSize"} ELSE {})
        \cup {"error"}
        \cup (IF c.o.snap # "" THEN {"InvalidSnapshot.NotFound"} ELSE {})

\* CreateVolumeWithContext and the checks of its response (cloud.go 485-520).
CreateDiskCreate(p) ==
    /\ cd[p].pc = "create"
    /\ LET v == [createType |-> cd[p].createType, iops |-> cd[p].iops]
           request == CreateVolumeInput(cd[p].o, v, cd[p].zone)
           c == [cd[p] EXCEPT !.calls.create = @ + 1, !.req = request]
           made == [id |-> nextID, name |-> request.Name, size |-> request.Size,
                    zone |-> request.AvailabilityZone, state |-> "creating",
                    snap |-> request.SnapshotId]
       IN \E outcome \in CreateOutcomes(cd[p]) :
            /\ IF outcome \in {"ok", "noID", "noSize"}
               THEN volumes' = Append(volumes, made) /\ nextID' = nextID + 1
               ELSE UNCHANGED <<volumes, nextID>>
            /\ LET err == CASE outcome = "InvalidSnapshot.NotFound" -> outcome
                             [] outcome = "error" -> "InternalError"
                             [] OTHER -> ""
                   d == [c EXCEPT !.outcome = outcome, !.code = err]
               IN cd' = [cd EXCEPT ![p] =
                    IF err # ""
                    THEN IF isAWSErrorSnapshotNotFound(err)
                         THEN [d EXCEPT !.pc = "done", !.err = ErrNotFound]
                         ELSE [d EXCEPT !.pc = "done", !.err = ErrCreateVolume]
                    ELSE IF outcome = "noID"
                    THEN [d EXCEPT !.pc = "done", !.err = ErrNoVolumeID]
                    ELSE IF outcome = "noSize"
                    THEN [d EXCEPT !.pc = "done", !.err = ErrNoSize]
                    ELSE [d EXCEPT !.pc = "wait", !.volID = made.id, !.size = made.size,
                                   !.token = 0, !.probes = 0]]
    /\ UNCHANGED notDisk

\* Probes wait.Poll makes before its timeout: one per interval.
WaitForVolumeProbes == CheckTimeout \div CheckInterval

\* A mutant of WaitStep: an error of the probe does not end the loop.
WaitStep_ErrorGoesOn(ok, err, probes, steps) ==
    IF err = ErrNil /\ ok THEN [end |-> TRUE, err |-> ErrNil]
    ELSE IF probes >= steps THEN [end |-> TRUE, err |-> ErrWaitTimeout]
    ELSE [end |-> FALSE, err |-> ErrNil]

\* A mutant of WaitStep: the loop allows one probe more.
WaitStep_OneMore(ok, err, probes, steps) ==
    IF err # ErrNil THEN [end |-> TRUE, err |-> err]
    ELSE IF ok THEN [end |-> TRUE, err |-> ErrNil]
    ELSE IF probes >= steps + 1 THEN [end |-> TRUE, err |-> ErrWaitTimeout]
    ELSE [end |-> FALSE, err |-> ErrNil]

\* The loops of wait.Poll (cloud.go 987) and wait.ExponentialBackoff (665,
\* 1116) after a probe that returned (ok, err), the probe being the
\* probes-th of the steps the loop allows: an error ends the loop and is
\* returned, ok ends it with nil, the last step ends it with ErrWaitTimeout.
WaitStep(ok, err, probes, steps) ==
    IF err # ErrNil THEN [end |-> TRUE, err |-> err]
    ELSE IF ok THEN [end |-> TRUE, err |-> ErrNil]
    ELSE IF probes >= steps THEN [end |-> TRUE, err |-> ErrWaitTimeout]
    ELSE [end |-> FALSE, err |-> ErrNil]

\* A mutant of VolumeAvailable: any state the volume has will do.
VolumeAvailable_AnyState(state) == state # ""

\* The answer of a probe of waitForVolume that found the volume (cloud.go
\* 992-995): done when the volume has a State and it is "available" ("" is
\* the State that is missing).
VolumeAvailable(state) == state = "available"

\* One probe of waitForVolume (cloud.go 973-999) and the return of
\* CreateDisk (522-526).  The DescribeVolumesInput is built once, before the
\* poll, and getVolume writes NextToken into it.  The provider fails the
\* lookup when fault holds, and lists the volume without its State when
\* noState does.  (perr is the error of the probe, seen the state it saw,
\* waitErr the error of the wait.)
CreateDiskProbe(p, fault, noState) ==
    /\ cd[p].pc = "wait"
    /\ fault => ~noState
    /\ LET r == IF fault
                THEN [err |-> ErrProvider, vol |-> NoVolume, token |-> cd[p].token]
                ELSE getVolume(volumes, [kind |-> "id", val |-> cd[p].volID],
                               cd[p].token)
           state == IF r.err # ErrNil \/ noState THEN "" ELSE r.vol.state
           w == WaitStep(VolumeAvailable(state), r.err, cd[p].probes + 1,
                         WaitForVolumeProbes)
           c == [cd[p] EXCEPT !.calls.describe = @ + 1, !.token = r.token,
                              !.probes = @ + 1, !.perr = r.err, !.seen = state,
                              !.waitErr = w.err]
       IN cd' = [cd EXCEPT ![p] =
            IF ~w.end THEN c
            ELSE IF w.err # ErrNil
            THEN [c EXCEPT !.pc = "done", !.err = ErrWaitAvailable]
            ELSE [c EXCEPT !.pc = "done",
                           !.disk = [VolumeID |-> c.volID, CapacityGiB |-> c.size,
                                     AvailabilityZone |-> c.zone,
                                     SnapshotID |-> c.o.snap]]]
    /\ UNCHANGED <<volumes, nextID, notDisk>>

\* The provider finishes creating a volume.
ProviderVolumeAvailable ==
    /\ \E i \in 1..Len(volumes) :
          /\ volumes[i].state = "creating"
          /\ volumes' = [volumes EXCEPT ![i].state = "available"]
    /\ UNCHANGED <<nextID, cd, notDisk>>

(***************************************************************************)
(* DeleteDisk (cloud.go 529-538): one DeleteVolume call.  The provider     *)
(* deletes a volume it has, answers InvalidVolume.NotFound for one it has  *)
(* not, and may fail either call with another error.                       *)
(***************************************************************************)
DeleteDisk(p, volumeID) ==
    /\ cd[p].pc = "idle"
    /\ LET found == \E i \in 1..Len(volumes) : volumes[i].id = volumeID
       IN \E err \in {IF found THEN "" ELSE "InvalidVolume.NotFound", "InternalError"} :
             LET c == [IdleCall EXCEPT !.op = "DeleteDisk", !.pc = "done",
                                       !.volID = volumeID, !.calls.delete = 1,
                                       !.code = err]
             IN /\ volumes' = IF err = ""
                              THEN SelectSeq(volumes, LAMBDA v : v.id # volumeID)
                              ELSE volumes
                /\ cd' = [cd EXCEPT ![p] =
                      IF err # ""
                      THEN IF isAWSErrorVolumeNotFound(err)
                           THEN [c EXCEPT !.err = ErrNotFound]
                           ELSE [c EXCEPT !.err = ErrDeleteVolume]
                      ELSE [c EXCEPT !.success = TRUE]]
    /\ UNCHANGED <<nextID, notDisk>>

(***************************************************************************)
(* GetDiskByName (cloud.go 668-694).                                        *)
(***************************************************************************)
\* The volumes that carry the name tag, and their IDs.
TaggedVolumes(name) == {volumes[i] : i \in {j \in 1..Len(volumes) : volumes[j].name = name}}

Tagged(name) == {v.id : v \in TaggedVolumes(name)}

\* (returned holds the Disks that CreateDisk calls have returned to callers
\* who still hold them when the lookup is made, with the calls' options.)
GetDiskByName(p, name, capacityBytes) ==
    /\ cd[p].pc = "idle"
    /\ LET r == getVolume(volumes, [kind |-> "name", val |-> name], 0)
           c == [IdleCall EXCEPT !.op = "GetDiskByName", !.pc = "done",
                                 !.o = [NoOptions EXCEPT !.name = name,
                                                         !.cap = capacityBytes],
                                 !.calls.describe = 1,
                                 !.matched = {[id |-> v.id, size |-> v.size,
                                                zone |-> v.zone] :
                                               v \in TaggedVolumes(name)},
                                 !.returned = {[disk |-> cd[q].disk, o |-> cd[q].o] :
                                               q \in {k \in Callers :
                                                        /\ cd[k].op = "CreateDisk"
                                                        /\ cd[k].pc = "done"
                                                        /\ cd[k].err = ErrNil}}]
       IN cd' = [cd EXCEPT ![p] =
            IF r.err # ErrNil
            THEN [c EXCEPT !.err = r.err]
            ELSE IF r.vol.size # BytesToGiB(capacityBytes)
            THEN [c EXCEPT !.err = ErrDiskExistsDiffSize]
            ELSE [c EXCEPT !.disk = [VolumeID |-> r.vol.id, CapacityGiB |-> r.vol.size,
                                     AvailabilityZone |-> r.vol.zone,
                                     SnapshotID |-> r.vol.snap]]]
    /\ UNCHANGED <<volumes, nextID, notDisk>>

\* The call returns to its caller, who may call again.
DiskReturn(p) ==
    /\ cd[p].pc = "done"
    /\ cd' = [cd EXCEPT ![p] = IdleCall]
    /\ UNCHANGED <<volumes, nextID, notDisk>>

(***************************************************************************)
(* ResizeDisk (cloud.go 1057-1106), waitForVolumeSize (1109-1137) and       *)
(* getLatestVolumeModification (1140-1157).  The provider keeps, per        *)
(* volume, its modification records, oldest first; a modification is in     *)
(* flight while its state is "modifying" or "optimizing", and the volume    *)
(* has its target size from "optimizing" on.                                *)
(***************************************************************************)
ErrModifyVolume == "could not modify AWS volume"
ErrDescribeMods == "error describing modifications in volume"
ErrNoMods == "could not find any modifications for volume"

NoMod == [target |-> 0, state |-> ""]

NoResizeCalls == [describe |-> 0, modify |-> 0, mods |-> 0]

IdleResize ==
    [pc |-> "idle", vol |-> 0, bytes |-> 0, new |-> 0, old |-> 0, mod |-> NoMod,
     probes |-> 0, size |-> 0, err |-> ErrNil, calls |-> NoResizeCalls,
     path |-> "", conc |-> FALSE, fault |-> FALSE, perr |-> ErrNil]

\* Modifications the provider accepts per volume in one run.
MaxMods == 2

\* The volumes ResizeDisk is called on.
ResizeVolumeIDs == {1}

\* Steps of the backoff of waitForVolumeSize.
ResizeBackoffSteps == 20

VolumeModificationStateCompleted == "completed"
VolumeModificationStateOptimizing == "optimizing"

\* The index of volume id in the provider's listing (0: none).
IndexOf(id) ==
    IF \E i \in 1..Len(volumes) : volumes[i].id = id
    THEN CHOOSE i \in 1..Len(volumes) : volumes[i].id = id
    ELSE 0

InFlight(v) ==
    /\ Len(mods[v]) > 0
    /\ mods[v][Len(mods[v])].state \in {"modifying", "optimizing"}

\* A mutant of IsTerminal: only "completed" ends the wait.
IsTerminal_CompletedOnly(state) == state = VolumeModificationStateCompleted

\* The test of cloud.go 1101 and 1124.
IsTerminal(state) ==
    state = VolumeModificationStateCompleted \/ state = VolumeModificationStateOptimizing

\* A mutant of ResizeNeeded: a request for the current size is sent on.
ResizeNeeded_OnEqual(oldSizeGiB, newSizeGiB) == oldSizeGiB <= newSizeGiB

\* The test of cloud.go 1072, negated: the volume has to grow.
ResizeNeeded(oldSizeGiB, newSizeGiB) == ~(oldSizeGiB >= newSizeGiB)

\* A mutant of ResizeDiskNoop: the requested size is returned.
ResizeDiskNoop_Requested(oldSizeGiB, newSizeGiB) == newSizeGiB

\* The size returned when the volume need not grow (cloud.go 1074).
ResizeDiskNoop(oldSizeGiB, newSizeGiB) == oldSizeGiB

\* A mutant of isAWSErrorIncorrectModification: no error is recognised.
isAWSErrorIncorrectModification_Never(code) == FALSE

isAWSErrorIncorrectModification(code) == code = "IncorrectModificationState"

\* ResizeDisk up to the size test: getVolume, then the no-op return.  The
\* caller p starts while others may be in the middle of a call on the volume.
ResizeDiskRead(p, volumeID, newSizeBytes) ==
    /\ UNCHANGED notResize
    /\ rz[p].pc = "idle"
    /\ LET newSizeGiB == RoundUpGiB(newSizeBytes)
           same(q) == /\ q # p /\ rz[q].pc \notin {"idle", "done", "panic"}
                      /\ rz[q].vol = volumeID /\ rz[q].new = newSizeGiB
           c == [IdleResize EXCEPT !.vol = volumeID, !.bytes = newSizeBytes,
                                   !.new = newSizeGiB, !.calls.describe = 1,
                                   !.conc = \E q \in Callers : same(q)]
           marked == [q \in Callers |->
                        IF same(q) THEN [rz[q] EXCEPT !.conc = TRUE] ELSE rz[q]]
       IN \/ rz' = [marked EXCEPT ![p] = [c EXCEPT !.pc = "done", !.err = ErrProvider,
                                                    !.fault = TRUE]]
          \/ LET r == getVolume(volumes, [kind |-> "id", val |-> volumeID], 0)
                 oldSizeGiB == r.vol.size
             IN rz' = [marked EXCEPT ![p] =
                  IF r.err # ErrNil
                  THEN [c EXCEPT !.pc = "done", !.err = r.err]
                  ELSE IF ~ResizeNeeded(oldSizeGiB, newSizeGiB)
                  THEN [c EXCEPT !.pc = "done", !.old = oldSizeGiB,
                                 !.size = ResizeDiskNoop(oldSizeGiB, newSizeGiB),
                                 !.path = "noop"]
                  ELSE [c EXCEPT !.pc = "modify", !.old = oldSizeGiB]]
    /\ UNCHANGED <<volumes, mods>>

\* The state and the size of volume v after a step of one modification.
WithSize(vs, v, size) == [vs EXCEPT ![IndexOf(v)].size = size]

\* ModifyVolumeWithContext (cloud.go 1077-1098).  The provider rejects the
\* call with IncorrectModificationState while a modification is in flight,
\* fails it otherwise when it would shrink the volume or its quota is used
\* up, and may fail it for its own reasons; a call it accepts adds a record,
\* which the response carries (or, malformed, lacks: mod is then nil and
\* the read of its state panics).
ResizeDiskModify(p) ==
    /\ UNCHANGED notResize
    /\ rz[p].pc = "modify"
    /\ LET v == rz[p].vol
           c == [rz[p] EXCEPT !.calls.modify = @ + 1]
           i == IndexOf(v)
       IN \/ /\ rz' = [rz EXCEPT ![p] = [c EXCEPT !.pc = "done", !.err = ErrModifyVolume,
                                                    !.fault = TRUE]]
             /\ UNCHANGED <<volumes, mods>>
          \/ /\ i # 0 /\ InFlight(v)
             /\ rz' = [rz EXCEPT ![p] =
                   IF isAWSErrorIncorrectModification("IncorrectModificationState")
                   THEN [c EXCEPT !.pc = "latest"]
                   ELSE [c EXCEPT !.pc = "done", !.err = ErrModifyVolume]]
             /\ UNCHANGED <<volumes, mods>>
          \/ /\ i # 0 /\ ~InFlight(v)
             /\ c.new >= volumes[i].size
             /\ Len(mods[v]) < MaxMods
             /\ \E s0 \in {"modifying", VolumeModificationStateCompleted},
                   hasRecord \in BOOLEAN :
                   LET m == [target |-> c.new, state |-> s0]
                   IN /\ mods' = [mods EXCEPT ![v] = Append(@, m)]
                      /\ volumes' = IF s0 = "modifying" THEN volumes
                                    ELSE WithSize(volumes, v, c.new)
                      /\ rz' = [rz EXCEPT ![p] =
                            IF ~hasRecord THEN [c EXCEPT !.pc = "panic"]
                            ELSE IF IsTerminal(m.state)
                            THEN [c EXCEPT !.pc = "done", !.mod = m,
                                           !.size = m.target, !.path = "own"]
                            ELSE [c EXCEPT !.pc = "poll", !.mod = m, !.path = "own"]]

\* getLatestVolumeModification: the last of the volume's records, or an error.
getLatestVolumeModification(v, ok) ==
    IF ~ok THEN [err |-> ErrDescribeMods, mod |-> NoMod]
    ELSE IF Len(mods[v]) = 0 THEN [err |-> ErrNoMods, mod |-> NoMod]
    ELSE [err |-> ErrNil, mod |-> mods[v][Len(mods[v])]]

\* After IncorrectModificationState: the latest modification takes the place
\* of the call's own (cloud.go 1089-1103).
ResizeDiskLatest(p) ==
    /\ UNCHANGED notResize
    /\ rz[p].pc = "latest"
    /\ \E ok \in BOOLEAN :
          LET r == getLatestVolumeModification(rz[p].vol, ok)
              c == [rz[p] EXCEPT !.calls.mods = @ + 1]
          IN rz' = [rz EXCEPT ![p] =
               IF r.err # ErrNil
               THEN [c EXCEPT !.pc = "done", !.err = r.err, !.fault = ~ok]
               ELSE IF IsTerminal(r.mod.state)
               THEN [c EXCEPT !.pc = "done", !.mod = r.mod, !.size = r.mod.target,
                              !.path = "recovered"]
               ELSE [c EXCEPT !.pc = "poll", !.mod = r.mod, !.path = "recovered"]]
    /\ UNCHANGED <<volumes, mods>>

\* One probe of waitForVolumeSize; the backoff allows ResizeBackoffSteps of them.
ResizeDiskPoll(p) ==
    /\ UNCHANGED notResize
    /\ rz[p].pc = "poll"
    /\ \E ok \in BOOLEAN :
          LET r == getLatestVolumeModification(rz[p].vol, ok)
              w == WaitStep(r.err = ErrNil /\ IsTerminal(r.mod.state), r.err,
                            rz[p].probes + 1, ResizeBackoffSteps)
              c == [rz[p] EXCEPT !.calls.mods = @ + 1, !.probes = @ + 1,
                                 !.perr = r.err]
          IN rz' = [rz EXCEPT ![p] =
               IF ~w.end THEN c
               ELSE IF w.err # ErrNil
               THEN [c EXCEPT !.pc = "done", !.err = w.err,
                              !.fault = (r.err # ErrNil /\ ~ok)]
               ELSE [c EXCEPT !.pc = "done", !.size = r.mod.target,
                              !.path = IF c.path = "own" THEN "polled-own"
                                       ELSE "polled-recovered"]]
    /\ UNCHANGED <<volumes, mods>>

\* The provider moves the modification in flight on: "modifying" becomes
\* "optimizing", "completed" or "failed"; "optimizing" becomes "completed".
ProviderModProgress(v) ==
    /\ UNCHANGED notResize
    /\ InFlight(v)
    /\ LET n == Len(mods[v])
           m == mods[v][n]
       IN \E s \in IF m.state = "modifying"
                   THEN {VolumeModificationStateOptimizing,
                         VolumeModificationStateCompleted, "failed"}
                   ELSE {VolumeModificationStateCompleted} :
             /\ mods' = [mods EXCEPT ![v][n].state = s]
             /\ volumes' = IF s = "failed" THEN volumes
                           ELSE WithSize(volumes, v, m.target)
    /\ UNCHANGED rz

(***************************************************************************)
(* The device allocator (pkg/cloud/devicemanager), by its contract: a      *)
(* binding of a device path to an (instance, volume) pair.  NewDevice       *)
(* returns the pair's binding when it holds one (IsAlreadyAssigned) and     *)
(* binds a free path of the instance otherwise; Release forgets the         *)
(* binding when forced, keeps it when the device is tainted or the          *)
(* provider holds the pair's attachment, and forgets it otherwise.          *)
(***************************************************************************)
Nodes == {"i-1", "i-2"}

DevicePaths == {"/dev/xvdba", "/dev/xvdbb"}

Bound(n, v) == {d \in devices : d.node = n /\ d.vol = v}

FreePaths(n) == DevicePaths \ {d.path : d \in {e \in devices : e.node = n}}

Attached(n, v) == \E a \in attachments : a.vol = v /\ a.node = n

\* The allocator's bindings after Release(force) of the pair's device.
Release(ds, n, v, force) ==
    IF force THEN {d \in ds : ~(d.node = n /\ d.vol = v)}
    ELSE {d \in ds : ~(d.node = n /\ d.vol = v) \/ d.tainted \/ Attached(n, v)}

\* The allocator's bindings after Taint of the pair's device.
Taint(ds, n, v) ==
    {IF d.node = n /\ d.vol = v THEN [d EXCEPT !.tainted = TRUE] ELSE d : d \in ds}

(***************************************************************************)
(* AttachDisk (cloud.go 540-582) and WaitForAttachmentState (624-666).     *)
(***************************************************************************)
ErrAttachVolume == "could not attach volume"
ErrNewDevice == "could not get a free device"

\* Steps of the backoff of WaitForAttachmentState.
AttachBackoffSteps == 13

AttachVolumeIDs == {1, 2}

NoAttachCalls == [instances |-> 0, attach |-> 0, describe |-> 0, detach |-> 0]

NoInstances == [err |-> "", n |-> 0]

IdleAttach ==
    [op |-> "none", pc |-> "idle", vol |-> 0, node |-> "", path |-> "",
     assigned |-> FALSE, probes |-> 0, err |-> ErrNil, ret |-> "",
     calls |-> NoAttachCalls, prev |-> "", released |-> 0,
     instances |-> NoInstances, acquired |-> FALSE, tainted |-> FALSE,
     forced |-> 0, code |-> "", cancelled |-> FALSE, late |-> 0, perr |-> ErrNil]

\* A mutant of Released: the deferred Release is left out.
Released_Never(c, force) == c

\* A mutant of Released: the deferred Release is never a forced one.
Released_NotForced(c, force) == [c EXCEPT !.released = @ + 1]

\* The call's record once its deferred device.Release(force) has run
\* (cloud.go 550 and 595): released counts the calls of Release, forced
\* those of them with force.
Released(c, force) ==
    [c EXCEPT !.released = @ + 1, !.forced = IF force THEN @ + 1 ELSE @]

isAWSErrorInstanceNotFound(err) == isAWSError(err, "InvalidInstanceID.NotFound")

\* DescribeInstances for an exact ID: an error code, or the number of
\* instances in the reservations of all pages.  The provider has one instance
\* for a node it knows (two, should it misbehave) and none for another, which
\* it may also report as InvalidInstanceID.NotFound; it may fail any call.
DescribeInstances(nodeID) ==
    IF nodeID \in Nodes
    THEN {[err |-> "", n |-> 1], [err |-> "", n |-> 2], [err |-> "InternalError", n |-> 0]}
    ELSE {[err |-> "", n |-> 0], [err |-> "InvalidInstanceID.NotFound", n |-> 0],
          [err |-> "InternalError", n |-> 0]}

\* A mutant of getInstance: of several instances the first is taken.
getInstance_FirstOfMany(response) ==
    IF response.err # ""
    THEN IF isAWSErrorInstanceNotFound(response.err) THEN ErrNotFound ELSE ErrListInstances
    ELSE IF response.n < 1 THEN ErrNotFound
    ELSE ErrNil

\* getInstance (cloud.go 888-922): the error it returns, ErrNil with the instance.
getInstance(response) ==
    IF response.err # ""
    THEN IF isAWSErrorInstanceNotFound(response.err) THEN ErrNotFound ELSE ErrListInstances
    ELSE IF response.n > 1 THEN ErrMultiInstances
    ELSE IF response.n < 1 THEN ErrNotFound
    ELSE ErrNil

\* A mutant of NeedsAttach: the attach call is issued whatever the device.
NeedsAttach_Always(isAlreadyAssigned) == TRUE

\* The test of cloud.go 552.
NeedsAttach(isAlreadyAssigned) == ~isAlreadyAssigned

\* AttachDisk up to the device: getInstance, then NewDevice.
AttachDiskBegin(p, volumeID, nodeID) ==
    /\ at[p].pc = "idle"
    /\ \E response \in DescribeInstances(nodeID) :
          LET c == [IdleAttach EXCEPT !.op = "AttachDisk", !.vol = volumeID,
                                      !.node = nodeID, !.calls.instances = 1,
                                      !.instances = response,
                                      !.prev = IF nodeID \in Nodes
                                               THEN lastPath[nodeID][volumeID] ELSE ""]
              err == getInstance(response)
          IN IF err # ErrNil
             THEN /\ at' = [at EXCEPT ![p] = [c EXCEPT !.pc = "done", !.err = err]]
                  /\ UNCHANGED devices
             ELSE IF Bound(nodeID, volumeID) # {}
             THEN /\ \E d \in Bound(nodeID, volumeID) :
                        at' = [at EXCEPT ![p] =
                                 [c EXCEPT !.pc = IF NeedsAttach(TRUE) THEN "attach" ELSE "wait",
                                           !.path = d.path, !.assigned = TRUE,
                                           !.acquired = TRUE]]
                  /\ UNCHANGED devices
             ELSE IF FreePaths(nodeID) = {}
             THEN /\ at' = [at EXCEPT ![p] = [c EXCEPT !.pc = "done", !.err = ErrNewDevice]]
                  /\ UNCHANGED devices
             ELSE \E path \in FreePaths(nodeID) :
                     /\ devices' = devices \cup
                           {[node |-> nodeID, vol |-> volumeID, path |-> path,
                             tainted |-> FALSE]}
                     /\ at' = [at EXCEPT ![p] =
                           [c EXCEPT !.pc = IF NeedsAttach(FALSE) THEN "attach" ELSE "wait",
                                     !.path = path, !.acquired = TRUE]]
    /\ UNCHANGED <<volumes, attachments, lastPath, notAttach>>

\* AttachVolumeWithContext (cloud.go 553-567).  The provider refuses a
\* volume that has an attachment with VolumeInUse, may fail the call for its
\* own reasons, and otherwise records the attachment as "attaching".  On an
\* error the deferred Release(false) runs.
AttachDiskAttach(p) ==
    /\ at[p].pc = "attach"
    /\ LET c == [at[p] EXCEPT !.calls.attach = @ + 1]
           fail(code, e) ==
               /\ at' = [at EXCEPT ![p] =
                          Released([c EXCEPT !.pc = "done", !.err = e, !.code = code],
                                   FALSE)]
               /\ devices' = Release(devices, c.node, c.vol, FALSE)
               /\ UNCHANGED attachments
       IN \/ fail("InternalError", ErrAttachVolume)
          \/ /\ \E a \in attachments : a.vol = c.vol
             /\ fail("VolumeInUse", ErrAlreadyExists)
          \/ /\ ~\E a \in attachments : a.vol = c.vol
             /\ attachments' = attachments \cup
                   {[vol |-> c.vol, node |-> c.node, state |-> "attaching"]}
             /\ at' = [at EXCEPT ![p] = [c EXCEPT !.pc = "wait"]]
             /\ UNCHANGED devices
    /\ UNCHANGED <<volumes, lastPath, notAttach>>

\* The states of a volume's attachments as DescribeVolumes lists them; ""
\* stands for an attachment whose State field is nil.
AttachmentStates == {"", "attaching", "attached", "detaching", "detached"}

\* A mutant of verifyAttachments: the first attachment alone is looked at.
verifyAttachments_FirstOnly(states, state) ==
    \/ Len(states) = 0 /\ state = "detached"
    \/ Len(states) > 0 /\ states[1] # "" /\ states[1] = state

\* The test of verifyVolumeFunc on the attachments of the volume it got
\* (cloud.go 646-662).
verifyAttachments(states, state) ==
    \/ Len(states) = 0 /\ state = "detached"
    \/ \E i \in 1..Len(states) : states[i] # "" /\ states[i] = state

\* The attachments DescribeVolumes lists for a volume: the provider keeps
\* one attachment a volume at most.
VolumeAttachments(volumeID) ==
    IF \E a \in attachments : a.vol = volumeID
    THEN <<(CHOOSE a \in attachments : a.vol = volumeID).state>>
    ELSE <<>>

\* verifyVolumeFunc (cloud.go 635-663) past its getVolume.
verifyVolumeFunc(volumeID, state) ==
    verifyAttachments(VolumeAttachments(volumeID), state)

\* A probe on a volume with the given attachments.
IdleProbe == [pc |-> "idle", states |-> <<>>, state |-> "", done |-> FALSE]

ProbeAttachments(states, state) ==
    /\ pv' = [pc |-> "probed", states |-> states, state |-> state,
              done |-> verifyAttachments(states, state)]
    /\ UNCHANGED notProbe

\* The error of a provider call made with a context that has ended.
ErrCanceled == "RequestCanceled: request context canceled"

\* The caller's context ends (it is cancelled, or its deadline passes) while
\* the call waits in WaitForAttachmentState.
CtxCancel(p) ==
    /\ at[p].pc \in {"wait", "waitDetached"}
    /\ ~at[p].cancelled
    /\ at' = [at EXCEPT ![p].cancelled = TRUE]
    /\ UNCHANGED <<volumes, attachments, devices, lastPath, notAttach>>

\* A mutant of WaitFailed: the Device is not tainted.
WaitFailed_NoTaint(c, e) == [c EXCEPT !.pc = "done", !.err = e]

\* AttachDisk on an error of its wait (cloud.go 572-575): device.Taint(),
\* then the return of the error with no path.
WaitFailed(c, e) == [c EXCEPT !.pc = "done", !.err = e, !.tainted = TRUE]

\* One probe of WaitForAttachmentState(volumeID, "attached") and what
\* AttachDisk does with its outcome (cloud.go 571-581): a failure taints the
\* device; the deferred Release(false) runs in either case.  wait.ExponentialBackoff
\* does not look at the context: the probe is made with it, and the client
\* fails a call whose context has ended (late counts the probes so made).
AttachDiskWait(p) ==
    /\ at[p].pc = "wait"
    /\ \E fault \in BOOLEAN :
          LET r == getVolume(volumes, [kind |-> "id", val |-> at[p].vol], 0)
              perr == IF at[p].cancelled THEN ErrCanceled
                      ELSE IF fault THEN ErrProvider
                      ELSE r.err
              w == WaitStep(perr = ErrNil /\ verifyVolumeFunc(at[p].vol, "attached"),
                            perr, at[p].probes + 1, AttachBackoffSteps)
              c == [at[p] EXCEPT !.calls.describe = @ + 1, !.probes = @ + 1,
                                 !.late = IF at[p].cancelled THEN @ + 1 ELSE @,
                                 !.perr = perr]
          IN IF ~w.end
             THEN /\ at' = [at EXCEPT ![p] = c]
                  /\ UNCHANGED <<devices, lastPath>>
             ELSE IF w.err # ErrNil
             THEN LET d == WaitFailed(c, w.err)
                  IN /\ at' = [at EXCEPT ![p] = Released(d, FALSE)]
                     /\ devices' = Release(IF d.tainted
                                           THEN Taint(devices, c.node, c.vol)
                                           ELSE devices,
                                           c.node, c.vol, FALSE)
                     /\ UNCHANGED lastPath
             ELSE /\ at' = [at EXCEPT ![p] =
                             Released([c EXCEPT !.pc = "done", !.ret = c.path], FALSE)]
                  /\ devices' = Release(devices, c.node, c.vol, FALSE)
                  /\ lastPath' = [lastPath EXCEPT ![c.node][c.vol] = c.path]
    /\ UNCHANGED <<volumes, attachments, notAttach>>

\* The provider completes an attachment.
ProviderAttached ==
    /\ \E a \in attachments :
          /\ a.state = "attaching"
          /\ attachments' = (attachments \ {a}) \cup {[a EXCEPT !.state = "attached"]}
    /\ UNCHANGED <<volumes, devices, at, lastPath, notAttach>>

(***************************************************************************)
(* DetachDisk (cloud.go 584-621).                                          *)
(***************************************************************************)
ErrDetachVolume == "could not detach volume"

isAWSErrorIncorrectState(err) == isAWSError(err, "IncorrectState")

isAWSErrorInvalidAttachmentNotFound(err) == isAWSError(err, "InvalidAttachment.NotFound")

\* A mutant of DetachNotFound: an incorrect state is no longer told apart.
DetachNotFound_NoIncorrectState(err) ==
    isAWSErrorInvalidAttachmentNotFound(err) \/ isAWSErrorVolumeNotFound(err)

\* The test of cloud.go 608-610.
DetachNotFound(err) ==
    \/ isAWSErrorIncorrectState(err)
    \/ isAWSErrorInvalidAttachmentNotFound(err)
    \/ isAWSErrorVolumeNotFound(err)

\* DetachDisk up to the device: getInstance, then GetDevice, which looks the
\* pair's binding up and binds nothing.
DetachDiskBegin(p, volumeID, nodeID) ==
    /\ at[p].pc = "idle"
    /\ \E response \in DescribeInstances(nodeID) :
          LET c == [IdleAttach EXCEPT !.op = "DetachDisk", !.vol = volumeID,
                                      !.node = nodeID, !.calls.instances = 1,
                                      !.instances = response]
              err == getInstance(response)
          IN IF err # ErrNil
             THEN at' = [at EXCEPT ![p] = [c EXCEPT !.pc = "done", !.err = err]]
             ELSE IF Bound(nodeID, volumeID) # {}
             THEN \E d \in Bound(nodeID, volumeID) :
                     at' = [at EXCEPT ![p] = [c EXCEPT !.pc = "detach", !.path = d.path,
                                                      !.assigned = TRUE, !.acquired = TRUE]]
             ELSE at' = [at EXCEPT ![p] = [c EXCEPT !.pc = "detach", !.acquired = TRUE]]
    /\ UNCHANGED <<volumes, attachments, devices, lastPath, notAttach>>

\* The codes DetachVolume may answer with: "" when the provider holds the
\* pair's attachment and starts to detach it; InvalidVolume.NotFound for a
\* volume it has not; IncorrectState or InvalidAttachment.NotFound for a
\* volume that is not attached to the instance; InternalError at any time.
DetachVolumeCodes(volumeID, nodeID) ==
    {"InternalError"} \cup
    (IF IndexOf(volumeID) = 0 THEN {"InvalidVolume.NotFound"}
     ELSE IF Attached(nodeID, volumeID) THEN {""}
     ELSE {"IncorrectState", "InvalidAttachment.NotFound"})

\* DetachVolumeWithContext and the mapping of its error (cloud.go 601-613);
\* on an error the deferred Release(true) runs.
DetachDiskDetach(p) ==
    /\ at[p].pc = "detach"
    /\ \E err \in DetachVolumeCodes(at[p].vol, at[p].node) :
          LET c == [at[p] EXCEPT !.calls.detach = @ + 1, !.code = err]
              fail(e) == /\ at' = [at EXCEPT ![p] =
                                       Released([c EXCEPT !.pc = "done", !.err = e], TRUE)]
                         /\ devices' = Release(devices, c.node, c.vol, TRUE)
                         /\ lastPath' = [lastPath EXCEPT ![c.node][c.vol] = ""]
                         /\ UNCHANGED attachments
          IN IF err # ""
             THEN IF DetachNotFound(err) THEN fail(ErrNotFound) ELSE fail(ErrDetachVolume)
             ELSE /\ attachments' =
                        {IF a.vol = c.vol /\ a.node = c.node
                         THEN [a EXCEPT !.state = "detaching"] ELSE a : a \in attachments}
                  /\ at' = [at EXCEPT ![p] = [c EXCEPT !.pc = "waitDetached"]]
                  /\ UNCHANGED <<devices, lastPath>>
    /\ UNCHANGED <<volumes, notAttach>>

\* One probe of WaitForAttachmentState(volumeID, "detached") and the return
\* of DetachDisk (cloud.go 616-620); the deferred Release(true) runs on each.
DetachDiskWait(p) ==
    /\ at[p].pc = "waitDetached"
    /\ \E fault \in BOOLEAN :
          LET r == getVolume(volumes, [kind |-> "id", val |-> at[p].vol], 0)
              perr == IF at[p].cancelled THEN ErrCanceled
                      ELSE IF fault THEN ErrProvider
                      ELSE r.err
              w == WaitStep(perr = ErrNil /\ verifyVolumeFunc(at[p].vol, "detached"),
                            perr, at[p].probes + 1, AttachBackoffSteps)
              c == [at[p] EXCEPT !.calls.describe = @ + 1, !.probes = @ + 1,
                                 !.late = IF at[p].cancelled THEN @ + 1 ELSE @,
                                 !.perr = perr]
          IN IF ~w.end
             THEN /\ at' = [at EXCEPT ![p] = c]
                  /\ UNCHANGED <<devices, lastPath>>
             ELSE /\ at' = [at EXCEPT ![p] =
                             Released([c EXCEPT !.pc = "done", !.err = w.err], TRUE)]
                  /\ devices' = Release(devices, c.node, c.vol, TRUE)
                  /\ lastPath' = [lastPath EXCEPT ![c.node][c.vol] = ""]
    /\ UNCHANGED <<volumes, attachments, notAttach>>

\* The provider completes a detachment.
ProviderDetached ==
    /\ \E a \in attachments :
          /\ a.state = "detaching"
          /\ attachments' = attachments \ {a}
    /\ UNCHANGED <<volumes, devices, at, lastPath, notAttach>>

(***************************************************************************)
(* GetDiskByID (cloud.go 696-713).                                          *)
(***************************************************************************)
\* A mutant of DiskOfVolume: the capacity is left out.
DiskOfVolume_NoCapacity(volume) ==
    [VolumeID |-> volume.id, CapacityGiB |-> 0, AvailabilityZone |-> volume.zone,
     SnapshotID |-> ""]

\* The Disk of cloud.go 708-712.
DiskOfVolume(volume) ==
    [VolumeID |-> volume.id, CapacityGiB |-> volume.size,
     AvailabilityZone |-> volume.zone, SnapshotID |-> ""]

GetDiskByID(p, volumeID) ==
    /\ cd[p].pc = "idle"
    /\ LET c == [IdleCall EXCEPT !.op = "GetDiskByID", !.pc = "done", !.volID = volumeID,
                                 !.calls.describe = 1]
       IN \/ cd' = [cd EXCEPT ![p] = [c EXCEPT !.err = ErrProvider, !.code = "InternalError"]]
          \/ LET r == getVolume(volumes, [kind |-> "id", val |-> volumeID], 0)
             IN cd' = [cd EXCEPT ![p] =
                  IF r.err # ErrNil THEN [c EXCEPT !.err = r.err]
                  ELSE [c EXCEPT !.disk = DiskOfVolume(r.vol)]]
    /\ UNCHANGED <<volumes, nextID, notDisk>>

(***************************************************************************)
(* ListSnapshots (cloud.go 801-839) and listSnapshots (950-969).  The      *)
(* provider scans its snapshots from the position the token names, as many *)
(* as it chooses up to MaxResults (all that remain when MaxResults is not  *)
(* positive), returns those of them the filter lets through, and a token   *)
(* (the position it stopped at; 0 is the empty token) while some remain.   *)
(***************************************************************************)
\* Snapshots the provider holds at most.
MaxSnapshots == 3

GiBToBytes(gib) == gib * GiB

NoSnapRequest == [MaxResults |-> 0, NextToken |-> 0, Filter |-> 0, sent |-> FALSE]

NoListResponse == [Snapshots |-> <<>>, NextToken |-> 0]

NoSnapshot == [SnapshotID |-> 0, SourceVolumeID |-> 0, Size |-> 0, ReadyToUse |-> FALSE]

IdleList ==
    [op |-> "none", pc |-> "idle", volumeID |-> 0, maxResults |-> 0, nextToken |-> 0,
     req |-> NoSnapRequest, calls |-> 0, fault |-> FALSE,
     page |-> <<>>, ptoken |-> 0, err |-> ErrNil, resp |-> NoListResponse,
     snapshotID |-> 0, success |-> FALSE, code |-> "",
     tags |-> <<>>, order |-> <<>>, reqTags |-> <<>>, snapshot |-> NoSnapshot]

\* DescribeSnapshots: the page of `scanned` snapshots from the request's position.
DescribeSnapshotsPage(ss, req, scanned) ==
    LET last == req.NextToken + scanned
        page == SubSeq(ss, req.NextToken + 1, last)
    IN [Snapshots |-> SelectSeq(page, LAMBDA x : req.Filter = 0 \/ x.vol = req.Filter),
        NextToken |-> IF last < Len(ss) THEN last ELSE 0]

\* How many snapshots the provider may scan for one page.
ScanLengths(ss, req) ==
    LET remaining == IF req.NextToken < Len(ss) THEN Len(ss) - req.NextToken ELSE 0
        limit == IF req.MaxResults > 0 /\ req.MaxResults < remaining
                 THEN req.MaxResults ELSE remaining
    IN IF limit = 0 THEN {0} ELSE 1..limit

\* ec2SnapshotResponseToStruct (cloud.go 842-860).
ec2SnapshotResponseToStruct(x) ==
    [SnapshotID |-> x.id, SourceVolumeID |-> x.vol, Size |-> GiBToBytes(x.size),
     ReadyToUse |-> (x.state = "completed")]

RECURSIVE ToStructs(_)
\* The loop of cloud.go 826-828.
ToStructs(page) ==
    IF page = <<>> THEN <<>>
    ELSE <<ec2SnapshotResponseToStruct(Head(page))>> \o ToStructs(Tail(page))

\* A mutant of InvalidMaxResults: five is refused too.
InvalidMaxResults_UpToFive(maxResults) == maxResults > 0 /\ maxResults <= 5

\* The test of cloud.go 802.
InvalidMaxResults(maxResults) == maxResults > 0 /\ maxResults < 5

\* A mutant of ListSnapshotsResult: an empty page is a successful response.
ListSnapshotsResult_EmptyOK(response) ==
    [err |-> ErrNil,
     resp |-> [Snapshots |-> ToStructs(response.Snapshots),
               NextToken |-> response.NextToken]]

\* What ListSnapshots makes of the provider's page (cloud.go 825-838).
ListSnapshotsResult(response) ==
    LET snaps == ToStructs(response.Snapshots)
    IN IF Len(snaps) = 0
       THEN [err |-> ErrNotFound, resp |-> NoListResponse]
       ELSE [err |-> ErrNil,
             resp |-> [Snapshots |-> snaps, NextToken |-> response.NextToken]]

ListSnapshots(volumeID, maxResults, nextToken) ==
    /\ sn.pc = "idle"
    /\ LET c == [IdleList EXCEPT !.op = "ListSnapshots", !.pc = "done",
                                 !.volumeID = volumeID,
                                 !.maxResults = maxResults, !.nextToken = nextToken]
           req == [MaxResults |-> maxResults, NextToken |-> nextToken,
                   Filter |-> volumeID, sent |-> TRUE]
           d == [c EXCEPT !.req = req, !.calls = 1]
       IN IF InvalidMaxResults(maxResults)
          THEN sn' = [c EXCEPT !.err = ErrInvalidMaxResults]
          ELSE \/ sn' = [d EXCEPT !.err = ErrProvider, !.fault = TRUE]
               \/ \E k \in ScanLengths(snapshots, req) :
                     LET response == DescribeSnapshotsPage(snapshots, req, k)
                         r == ListSnapshotsResult(response)
                     IN sn' = [d EXCEPT !.page = response.Snapshots,
                                        !.ptoken = response.NextToken,
                                        !.err = r.err, !.resp = r.resp]
    /\ UNCHANGED <<snapshots, notSnap>>

(***************************************************************************)
(* DeleteSnapshot (cloud.go 752-763): one DeleteSnapshot call, answered as *)
(* DeleteVolume is.                                                        *)
(***************************************************************************)
ErrDeleteSnapshot == "DeleteSnapshot could not delete volume"

DeleteSnapshot(snapshotID) ==
    /\ sn.pc = "idle"
    /\ LET found == \E i \in 1..Len(snapshots) : snapshots[i].id = snapshotID
       IN \E err \in {IF found THEN "" ELSE "InvalidSnapshot.NotFound", "InternalError"} :
             LET c == [IdleList EXCEPT !.op = "DeleteSnapshot", !.pc = "done",
                                       !.snapshotID = snapshotID, !.calls = 1,
                                       !.code = err]
             IN /\ snapshots' = IF err = ""
                                THEN SelectSeq(snapshots, LAMBDA x : x.id # snapshotID)
                                ELSE snapshots
                /\ sn' = IF err # ""
                         THEN IF isAWSErrorSnapshotNotFound(err)
                              THEN [c EXCEPT !.err = ErrNotFound]
                              ELSE [c EXCEPT !.err = ErrDeleteSnapshot]
                         ELSE [c EXCEPT !.success = TRUE]
    /\ UNCHANGED notSnap

(***************************************************************************)
(* CreateSnapshot (cloud.go 723-750): the tags of the options become the   *)
(* tag specification of one CreateSnapshot call.  SnapshotOptions.Tags is  *)
(* a map, here a function from its keys to their values; Go ranges over a  *)
(* map in an order of its own, here a sequence of the keys.                *)
(***************************************************************************)
TagKeys == {"k1", "k2", "k3"}

TagValues == {"a", "b"}

TagMaps == UNION {[ks -> TagValues] : ks \in SUBSET TagKeys}

\* The orders a range over the map can take.
RangeOrders(tagMap) ==
    {o \in [1..Cardinality(DOMAIN tagMap) -> DOMAIN tagMap] :
        \A i, j \in DOMAIN o : o[i] = o[j] => i = j}

\* The tags CreateDisk builds (cloud.go 464-469): each iteration copies key
\* and value into variables of its own and appends their addresses.
VolumeTags(tagMap, order) ==
    [i \in 1..Len(order) |-> [Key |-> order[i], Value |-> tagMap[order[i]]]]

\* The tags CreateSnapshot builds (cloud.go 726-729): each iteration appends
\* &key and &value, the addresses of the two variables of the range
\* statement, which are the same in every iteration; when the request is
\* sent they hold the pair of the last iteration, and every tag is that pair.
SnapshotTags(tagMap, order) ==
    [i \in 1..Len(order) |->
        [Key |-> order[Len(order)], Value |-> tagMap[order[Len(order)]]]]

ErrCreateSnapshot == "error creating snapshot of volume"

CreateSnapshot(volumeID, tagMap) ==
    /\ sn.pc = "idle"
    /\ \E order \in RangeOrders(tagMap), ok \in BOOLEAN :
          LET tags == SnapshotTags(tagMap, order)
              i == IndexOf(volumeID)
              made == [id |-> Len(snapshots) + 1, vol |-> volumeID,
                       size |-> volumes[i].size, state |-> "pending"]
              c == [IdleList EXCEPT !.op = "CreateSnapshot", !.pc = "done",
                                    !.volumeID = volumeID, !.tags = tagMap,
                                    !.order = order, !.reqTags = tags, !.calls = 1]
          IN IF ok /\ i # 0 /\ Len(snapshots) < MaxSnapshots
             THEN /\ snapshots' = Append(snapshots, made)
                  /\ sn' = [c EXCEPT !.snapshot = ec2SnapshotResponseToStruct(made)]
             ELSE /\ snapshots' = snapshots
                  /\ sn' = [c EXCEPT !.err = ErrCreateSnapshot,
                                     !.code = IF i = 0 THEN "InvalidVolume.NotFound"
                                              ELSE "InternalError"]
    /\ UNCHANGED notSnap

SnapReturn ==
    /\ sn.pc = "done"
    /\ sn' = IdleList
    /\ UNCHANGED <<snapshots, notSnap>>

(***************************************************************************)
(* The initial states: a provider with no volume, callers with no call.    *)
(***************************************************************************)
InitDiskVars ==
    /\ volumes = <<>>
    /\ nextID = 1
    /\ cd = [p \in Callers |-> IdleCall]
    /\ pl = IdlePaged
    /\ pv = IdleProbe

InitResizeVars ==
    /\ mods = [v \in ResizeVolumeIDs |-> <<>>]
    /\ rz = [p \in Callers |-> IdleResize]

InitAttachVars ==
    /\ attachments = {}
    /\ devices = {}
    /\ at = [p \in Callers |-> IdleAttach]
    /\ lastPath = [n \in Nodes |-> [v \in AttachVolumeIDs |-> ""]]

InitSnapVars ==
    /\ snapshots = <<>>
    /\ sn = IdleList

(***************************************************************************)
(* SpecDisk: two callers create, delete and look up volumes by name.       *)
(***************************************************************************)
\* The options the callers of SpecDisk create volumes with.
DiskOptionsSet ==
    [name : Names, vtype : {VolumeTypeGP2}, cap : {GiB}, rate : {0},
     zone : {"us-test-1a"}, snap : {""}]

InitDisk == InitDiskVars /\ InitResizeVars /\ InitAttachVars /\ InitSnapVars

NextDisk ==
    \/ \E p \in Callers, o \in DiskOptionsSet : CreateDiskBegin(p, o)
    \/ \E p \in Callers : CreateDiskCreate(p)
    \/ \E p \in Callers : CreateDiskProbe(p, FALSE, FALSE)
    \/ ProviderVolumeAvailable
    \/ \E p \in Callers, id \in 1..MaxVolumes : DeleteDisk(p, id)
    \/ \E p \in Callers, n \in Names, c \in {GiB, 2 * GiB} : GetDiskByName(p, n, c)
    \/ \E p \in Callers : DiskReturn(p)

SpecDisk == InitDisk /\ [][NextDisk]_vars

(***************************************************************************)
(* SpecCreate: one CreateDisk call, over the full range of options.         *)
(***************************************************************************)
\* Volume types: the five the switch knows, the empty one and two it does not know.
VolumeTypes ==
    {VolumeTypeIO1, VolumeTypeIO2, VolumeTypeGP2, VolumeTypeST2, VolumeTypeStandard,
     "", "gp3", "sc1"}

\* Capacities of 1 and 200 GiB; rates whose products with
\* them fall below MinTotalIOPS, between the limits, above MaxTotalIOPS, and
\* outside the machine integer.
\* The rate matters to io1 and io2 alone: the other types are tried with one
\* capacity and no rate.
CreateOptionsSet ==
    [name : {"vol-a"}, vtype : {VolumeTypeIO1, VolumeTypeIO2},
     cap : {GiB, 200 * GiB}, rate : {0, 50, 150, 200},
     zone : {"", "us-test-1a"}, snap : {"", "snap-1"}]
    \cup
    [name : {"vol-a"}, vtype : VolumeTypes \ {VolumeTypeIO1, VolumeTypeIO2},
     cap : {GiB}, rate : {0}, zone : {"", "us-test-1a"}, snap : {"", "snap-1"}]

NextCreate ==
    \/ \E o \in CreateOptionsSet : CreateDiskBegin(1, o)
    \/ CreateDiskZone(1)
    \/ CreateDiskCreate(1)
    \/ \E fault \in BOOLEAN, noState \in BOOLEAN : CreateDiskProbe(1, fault, noState)
    \/ ProviderVolumeAvailable

SpecCreate == InitDisk /\ [][NextCreate]_vars

(***************************************************************************)
(* SpecResize: each of two callers makes one ResizeDisk call, to 1, 2 or 3  *)
(* GiB, on a volume of 1 GiB that exists from the start.  The provider's   *)
(* state at the start is the environment's: the volume may carry a         *)
(* modification to 2 GiB in flight, as an earlier call leaves one behind    *)
(* when its wait ends in an error.                                         *)
(***************************************************************************)
InitResize ==
    /\ volumes = [i \in 1..MaxVolumes |->
                    [id |-> i, name |-> IF i = 1 THEN "vol-a" ELSE "vol-b", size |-> 1,
                     zone |-> "us-test-1a", state |-> "available", snap |-> ""]]
    /\ nextID = MaxVolumes + 1
    /\ cd = [p \in Callers |-> IdleCall]
    /\ pl = IdlePaged
    /\ pv = IdleProbe
    /\ mods \in [ResizeVolumeIDs -> {<<>>, <<[target |-> 2, state |-> "modifying"]>>}]
    /\ rz = [p \in Callers |-> IdleResize]
    /\ InitAttachVars /\ InitSnapVars

\* Requests in bytes: exactly 1 GiB, one byte short of 2 GiB, exactly 3 GiB.
ResizeBytes == {GiB, 2 * GiB - 1, 3 * GiB}

NextResize ==
    \/ \E p \in Callers, v \in ResizeVolumeIDs, b \in ResizeBytes : ResizeDiskRead(p, v, b)
    \/ \E p \in Callers : ResizeDiskModify(p)
    \/ \E p \in Callers : ResizeDiskLatest(p)
    \/ \E p \in Callers : ResizeDiskPoll(p)
    \/ \E v \in ResizeVolumeIDs : ProviderModProgress(v)

SpecResize == InitResize /\ [][NextResize]_vars

(***************************************************************************)
(* SpecAttach: each of two callers makes one AttachDisk call, for one of   *)
(* two volumes and one of two instances.                                   *)
(***************************************************************************)
InitAttach ==
    /\ volumes = [i \in 1..MaxVolumes |->
                    [id |-> i, name |-> IF i = 1 THEN "vol-a" ELSE "vol-b", size |-> 1,
                     zone |-> "us-test-1a", state |-> "available", snap |-> ""]]
    /\ nextID = MaxVolumes + 1
    /\ cd = [p \in Callers |-> IdleCall]
    /\ pl = IdlePaged
    /\ pv = IdleProbe
    /\ InitResizeVars /\ InitAttachVars /\ InitSnapVars

NextAttach ==
    \/ \E p \in Callers, v \in AttachVolumeIDs, n \in Nodes : AttachDiskBegin(p, v, n)
    \/ \E p \in Callers : AttachDiskAttach(p)
    \/ \E p \in Callers : AttachDiskWait(p)
    \/ ProviderAttached

SpecAttach == InitAttach /\ [][NextAttach]_vars

(***************************************************************************)
(* SpecSnap: one ListSnapshots call on a provider that holds up to          *)
(* MaxSnapshots snapshots of two volumes, pending or completed.             *)
(***************************************************************************)
SnapshotSeqs ==
    UNION {[1..n -> [vol : {1, 2}, state : {"pending", "completed"}]] : n \in 0..MaxSnapshots}

InitSnap ==
    /\ InitDiskVars /\ InitResizeVars /\ InitAttachVars
    /\ \E ss \in SnapshotSeqs :
          snapshots = [i \in 1..Len(ss) |->
                         [id |-> i, vol |-> ss[i].vol, size |-> 1, state |-> ss[i].state]]
    /\ sn = IdleList

\* The page sizes asked for: none, the four below the provider's minimum,
\* the minimum and one above.
MaxResultsSet == 0..6

NextSnap ==
    \E v \in 0..2, m \in MaxResultsSet, t \in 0..MaxSnapshots : ListSnapshots(v, m, t)

SpecSnap == InitSnap /\ [][NextSnap]_vars

(***************************************************************************)
(* SpecDelete: two callers delete volumes, and one deletes snapshots, of a *)
(* provider that holds MaxVolumes volumes and MaxSnapshots snapshots        *)
(* at the start; identifiers are deleted again after they are gone.        *)
(***************************************************************************)
InitDelete ==
    /\ volumes = [i \in 1..MaxVolumes |->
                    [id |-> i, name |-> IF i = 1 THEN "vol-a" ELSE "vol-b", size |-> 1,
                     zone |-> "us-test-1a", state |-> "available", snap |-> ""]]
    /\ nextID = MaxVolumes + 1
    /\ cd = [p \in Callers |-> IdleCall]
    /\ pl = IdlePaged
    /\ pv = IdleProbe
    /\ InitResizeVars /\ InitAttachVars
    /\ snapshots = [i \in 1..MaxSnapshots |->
                      [id |-> i, vol |-> 1, size |-> 1, state |-> "completed"]]
    /\ sn = IdleList

NextDelete ==
    \/ \E p \in Callers, id \in 1..MaxVolumes + 1 : DeleteDisk(p, id)
    \/ \E p \in Callers : DiskReturn(p)
    \/ \E id \in 1..MaxSnapshots : DeleteSnapshot(id)
    \/ SnapReturn

SpecDelete == InitDelete /\ [][NextDelete]_vars

(***************************************************************************)
(* SpecTags: a caller makes CreateSnapshot calls, one after the other, for *)
(* two volumes there are and one there is not, with up to three tags.      *)
(***************************************************************************)
InitTags ==
    /\ volumes = [i \in 1..MaxVolumes |->
                    [id |-> i, name |-> IF i = 1 THEN "vol-a" ELSE "vol-b", size |-> 1,
                     zone |-> "us-test-1a", state |-> "available", snap |-> ""]]
    /\ nextID = MaxVolumes + 1
    /\ cd = [p \in Callers |-> IdleCall]
    /\ pl = IdlePaged
    /\ pv = IdleProbe
    /\ InitResizeVars /\ InitAttachVars /\ InitSnapVars

NextTags ==
    \/ \E v \in 1..MaxVolumes + 1, t \in TagMaps : CreateSnapshot(v, t)
    \/ SnapReturn

SpecTags == InitTags /\ [][NextTags]_vars

(***************************************************************************)
(* SpecReattach: two callers attach one volume to either of two instances; *)
(* the first makes one call, the second makes its next call after the one  *)
(* before has returned.                                                    *)
(***************************************************************************)
\* The caller has its result and is free for its next call.
AttachReturn(p) ==
    /\ at[p].pc = "done"
    /\ at' = [at EXCEPT ![p] = IdleAttach]
    /\ UNCHANGED <<volumes, attachments, devices, lastPath, notAttach>>

NextReattach ==
    \/ \E p \in Callers, n \in Nodes : AttachDiskBegin(p, 1, n)
    \/ \E p \in Callers : AttachDiskAttach(p)
    \/ \E p \in Callers : AttachDiskWait(p)
    \/ ProviderAttached
    \/ AttachReturn(2)

SpecReattach == InitAttach /\ [][NextReattach]_vars

(***************************************************************************)
(* SpecDetach: two callers, each with one call, attach a volume to an      *)
(* instance or detach it, also with an instance the provider does not      *)
(* know; a caller looks the volume up by its ID.  At the start the volume  *)
(* is unattached, or attached to the instance by an earlier AttachDisk     *)
(* with the allocator holding the binding, or with an allocator that has   *)
(* no record of it (a restarted driver).                                   *)
(***************************************************************************)
DetachNodes == {"i-1", "i-gone"}

InitDetach ==
    /\ volumes = [i \in 1..MaxVolumes |->
                    [id |-> i, name |-> IF i = 1 THEN "vol-a" ELSE "vol-b", size |-> 1,
                     zone |-> "us-test-1a", state |-> "available", snap |-> ""]]
    /\ nextID = MaxVolumes + 1
    /\ cd = [p \in Callers |-> IdleCall]
    /\ pl = IdlePaged
    /\ pv = IdleProbe
    /\ InitResizeVars /\ InitSnapVars
    /\ at = [p \in Callers |-> IdleAttach]
    /\ \/ /\ attachments = {}
          /\ devices = {}
          /\ lastPath = [n \in Nodes |-> [v \in AttachVolumeIDs |-> ""]]
       \/ /\ attachments = {[vol |-> 1, node |-> "i-1", state |-> "attached"]}
          /\ devices = {[node |-> "i-1", vol |-> 1, path |-> "/dev/xvdba",
                         tainted |-> FALSE]}
          /\ lastPath = [n \in Nodes |-> [v \in AttachVolumeIDs |->
                            IF n = "i-1" /\ v = 1 THEN "/dev/xvdba" ELSE ""]]
       \/ /\ attachments = {[vol |-> 1, node |-> "i-1", state |-> "attached"]}
          /\ devices = {}
          /\ lastPath = [n \in Nodes |-> [v \in AttachVolumeIDs |-> ""]]

NextDetach ==
    \/ \E p \in Callers, n \in DetachNodes : AttachDiskBegin(p, 1, n)
    \/ \E p \in Callers : AttachDiskAttach(p)
    \/ \E p \in Callers : AttachDiskWait(p)
    \/ ProviderAttached
    \/ \E p \in Callers, n \in DetachNodes : DetachDiskBegin(p, 1, n)
    \/ \E p \in Callers : DetachDiskDetach(p)
    \/ \E p \in Callers : DetachDiskWait(p)
    \/ ProviderDetached
    \/ \E v \in {1, MaxVolumes + 1} : GetDiskByID(1, v)
    \/ DiskReturn(1)

SpecDetach == InitDetach /\ [][NextDetach]_vars

(***************************************************************************)
(* SpecCancel: the calls of SpecDetach, whose callers may end their        *)
(* contexts while the calls wait for the attachment state.                 *)
(***************************************************************************)
NextCancel ==
    \/ \E p \in Callers : AttachDiskBegin(p, 1, "i-1")
    \/ \E p \in Callers : AttachDiskAttach(p)
    \/ \E p \in Callers : AttachDiskWait(p)
    \/ ProviderAttached
    \/ \E p \in Callers : DetachDiskBegin(p, 1, "i-1")
    \/ \E p \in Callers : DetachDiskDetach(p)
    \/ \E p \in Callers : DetachDiskWait(p)
    \/ ProviderDetached
    \/ \E p \in Callers : CtxCancel(p)

SpecCancel == InitDetach /\ [][NextCancel]_vars

(***************************************************************************)
(* SpecPaged: paginated lookups of the three kinds, one after the other,   *)
(* over every script of up to MaxPages pages of up to MaxPerPage items,    *)
(* with and without a call the provider fails.                             *)
(***************************************************************************)
NextPaged ==
    \/ \E kind \in LookupKinds, script \in PageScripts :
          \E failAt \in 0..Len(script),
             code \in {"InternalError", "InvalidInstanceID.NotFound"} :
             PagedBegin(kind, script, failAt, code)
    \/ PagedFetch
    \/ PagedReturn

SpecPaged == InitDisk /\ [][NextPaged]_vars

(***************************************************************************)
(* SpecProbe: probes of WaitForAttachmentState on volumes with up to       *)
(* MaxAttachments attachments in any states, some without a state.         *)
(***************************************************************************)
MaxAttachments == 3

AttachmentLists == UNION {[1..n -> AttachmentStates] : n \in 0..MaxAttachments}

NextProbe ==
    \E states \in AttachmentLists, state \in {"attached", "detached"} :
        ProbeAttachments(states, state)

SpecProbe == InitDisk /\ [][NextProbe]_vars

(***************************************************************************)
(* SpecPoll: the three polling loops in one specification.  A caller makes *)
(* one call, which is a CreateDisk, an AttachDisk of the volume there is,  *)
(* or a ResizeDisk of it; the volume may have a modification in flight.    *)
(***************************************************************************)
PollOptions ==
    [name |-> "vol-b", vtype |-> VolumeTypeGP2, cap |-> GiB, rate |-> 0,
     zone |-> "us-test-1a", snap |-> "snap-1"]

InitPoll ==
    /\ volumes = <<[id |-> 1, name |-> "vol-a", size |-> 1, zone |-> "us-test-1a",
                    state |-> "available", snap |-> ""]>>
    /\ nextID = 2
    /\ cd = [p \in Callers |-> IdleCall]
    /\ pl = IdlePaged
    /\ pv = IdleProbe
    /\ mods \in [ResizeVolumeIDs -> {<<>>, <<[target |-> 2, state |-> "modifying"]>>}]
    /\ rz = [p \in Callers |-> IdleResize]
    /\ InitAttachVars /\ InitSnapVars

\* The caller has no call in progress.
NoCallInProgress(p) ==
    cd[p].pc = "idle" /\ at[p].pc = "idle" /\ rz[p].pc = "idle"

PollCreateDisk(p) == NoCallInProgress(p) /\ CreateDiskBegin(p, PollOptions)

PollAttachDisk(p) == NoCallInProgress(p) /\ AttachDiskBegin(p, 1, "i-1")

PollResizeDisk(p) == NoCallInProgress(p) /\ ResizeDiskRead(p, 1, 3 * GiB)

NextPoll ==
    \/ PollCreateDisk(1)
    \/ CreateDiskCreate(1)
    \/ \E fault \in BOOLEAN, noState \in BOOLEAN : CreateDiskProbe(1, fault, noState)
    \/ ProviderVolumeAvailable
    \/ PollAttachDisk(1)
    \/ AttachDiskAttach(1)
    \/ AttachDiskWait(1)
    \/ ProviderAttached
    \/ PollResizeDisk(1)
    \/ ResizeDiskModify(1)
    \/ ResizeDiskLatest(1)
    \/ ResizeDiskPoll(1)
    \/ ProviderModProgress(1)

SpecPoll == InitPoll /\ [][NextPoll]_vars

(***************************************************************************)
(* Claims.                                                                 *)
(***************************************************************************)

\* C1: after any sequence of CreateDisk and DeleteDisk calls, at most one
\* volume with a given CSIVolumeName tag value exists at the provider.
\* CreateDisk issues CreateVolume without looking the name up, so two calls
\* with the same name leave two volumes: TLC finds this violated.
C1_AtMostOneVolumePerName ==
    \A n \in Names : Cardinality(Tagged(n)) <= 1

C3_ReattachReusesDevice ==
    \A p \in Callers :
        /\ at[p].assigned => at[p].calls.attach = 0
        /\ at[p].calls.attach <= 1
        /\ (at[p].pc = "done" /\ at[p].assigned) => at[p].calls.describe >= 1
        /\ (at[p].pc = "done" /\ at[p].err = ErrNil /\ at[p].assigned /\ at[p].prev # "")
              => at[p].ret = at[p].prev

\* C3 witness: a call that attached the volume has returned a path, and a
\* second call of the pair, begun after it, has returned the same path with
\* no AttachVolume call of its own.
C3_Witness ==
    \E p, q \in Callers :
        /\ p # q
        /\ at[q].pc = "done" /\ at[q].err = ErrNil /\ at[q].calls.attach = 1
        /\ at[p].pc = "done" /\ at[p].err = ErrNil /\ at[p].assigned
        /\ at[p].vol = at[q].vol /\ at[p].node = at[q].node
        /\ at[p].prev = at[q].ret /\ at[p].ret = at[q].ret /\ at[p].ret # ""
        /\ at[p].calls.attach = 0

\* C4: a ResizeDisk whose requested size, rounded up to GiB, is at most the
\* size it read returns that size and no error, with no ModifyVolume call
\* and no description of modifications.
C4_NoopResize ==
    \A p \in Callers :
        (rz[p].pc # "idle" /\ rz[p].old > 0 /\ RoundUpGiB(rz[p].bytes) <= rz[p].old) =>
            /\ rz[p].pc = "done"
            /\ rz[p].size = rz[p].old
            /\ rz[p].err = ErrNil
            /\ rz[p].calls.modify = 0
            /\ rz[p].calls.mods = 0

\* C4 witness: a request one byte short of 2 GiB on a volume grown to 2 GiB
\* has returned.
C4_Witness ==
    \E p \in Callers :
        /\ rz[p].pc = "done" /\ rz[p].bytes = 2 * GiB - 1 /\ rz[p].old = 2
        /\ rz[p].path = "noop"

\* C5: a ResizeDisk that returns no error returns a size no smaller than the
\* size it read at its start, whether it returned at once, after its own
\* modification, after a recovered one, or after the wait.
C5_NeverSmaller ==
    \A p \in Callers :
        (rz[p].pc = "done" /\ rz[p].err = ErrNil) =>
            /\ rz[p].old > 0
            /\ rz[p].size >= rz[p].old

\* C5 witness: one call returned at once with more than it asked for, the
\* other after waiting for a modification that was not its own.
C5_Witness ==
    \E p, q \in Callers :
        /\ rz[p].pc = "done" /\ rz[p].err = ErrNil /\ rz[p].path = "noop"
        /\ rz[p].size > rz[p].new
        /\ rz[q].pc = "done" /\ rz[q].err = ErrNil /\ rz[q].path = "polled-recovered"
        /\ rz[q].size > rz[q].old

\* C6: GetDiskByName fails with ErrMultiDisks when two or more volumes carry
\* the name tag, with ErrNotFound when none does, with ErrDiskExistsDiffSize
\* when exactly one does and its size in GiB differs from the expected
\* capacity, and returns that volume as a Disk only in the remaining case.
\* (matched holds the provider's volumes with the tag at the time of the call.)
C6_GetDiskByNameErrors ==
    \A p \in Callers :
        (cd[p].op = "GetDiskByName" /\ cd[p].pc = "done") =>
            LET c == cd[p]
                n == Cardinality(c.matched)
                agree == \A v \in c.matched : v.size = BytesToGiB(c.o.cap)
            IN /\ (n >= 2) => (c.err = ErrMultiDisks)
               /\ (n = 0) => (c.err = ErrNotFound)
               /\ (n = 1 /\ ~agree) => (c.err = ErrDiskExistsDiffSize)
               /\ (n = 1 /\ agree) => (c.err = ErrNil)
               /\ (c.err = ErrNil) <=> (c.disk # NoDisk)
               /\ (c.disk # NoDisk) =>
                    \E v \in c.matched :
                        /\ c.disk.VolumeID = v.id
                        /\ c.disk.CapacityGiB = BytesToGiB(c.o.cap)
                        /\ c.disk.AvailabilityZone = v.zone

\* C6 witness: one lookup met a size conflict and another met two volumes of a name.
C6_Witness ==
    \E p, q \in Callers :
        /\ cd[p].op = "GetDiskByName" /\ cd[p].err = ErrDiskExistsDiffSize
        /\ Cardinality(cd[p].matched) = 1
        /\ cd[q].op = "GetDiskByName" /\ cd[q].err = ErrMultiDisks
        /\ Cardinality(cd[q].matched) = 2

\* C7: for every volume type outside {io1, io2, gp2, st2, standard, ""},
\* CreateDisk fails with the invalid-type error and issues no provider call
\* (no zone listing, no CreateVolume, no describe); the empty type is
\* created as gp2.
C7_InvalidTypeNoCall ==
    \A p \in Callers :
        cd[p].op = "CreateDisk" =>
            /\ cd[p].o.vtype \notin {"io1", "io2", "gp2", "st2", "standard", ""} =>
                 /\ cd[p].pc = "done"
                 /\ cd[p].err = ErrInvalidVolumeType
                 /\ cd[p].calls = NoCalls
                 /\ cd[p].req = NoRequest
                 /\ cd[p].disk = NoDisk
            /\ (cd[p].o.vtype = "" /\ cd[p].calls.create > 0) =>
                 cd[p].req.VolumeType = "gp2"

\* C7 witness: a CreateDisk with an unknown type has returned.
C7_Witness ==
    \E p \in Callers :
        /\ cd[p].op = "CreateDisk" /\ cd[p].pc = "done"
        /\ cd[p].o.vtype = "gp3" /\ cd[p].o.zone = ""
        /\ cd[p].err = ErrInvalidVolumeType

\* clamp(x, 100, 20000) on the mathematical integers.
ClampIOPS(x) ==
    IF x < MinTotalIOPS THEN MinTotalIOPS
    ELSE IF x > MaxTotalIOPS THEN MaxTotalIOPS ELSE x

\* C8: for io1 and io2 the IOPS sent in the CreateVolume request equals
\* clamp(capacityGiB * IOPSPerGB, 100, 20000) for every capacity and rate,
\* products that overflow the integer width included.  The int64 product
\* wraps before it is clamped: TLC finds this violated.
C8_IopsIsClampedProduct ==
    \A p \in Callers :
        (cd[p].op = "CreateDisk" /\ cd[p].o.vtype \in {"io1", "io2"}
            /\ cd[p].calls.create > 0) =>
                cd[p].req.Iops = ClampIOPS(BytesToGiB(cd[p].o.cap) * cd[p].o.rate)

\* C9: ListSnapshots with maxResults of 1, 2, 3 or 4 fails with
\* ErrInvalidMaxResults and issues no provider call; with maxResults of 0,
\* or of 5 or more, the request is sent to the provider, and the call
\* succeeds when the provider returns at least one snapshot.
C9_MaxResultsGuard ==
    sn.pc = "done" =>
        /\ sn.maxResults \in 1..4 =>
             /\ sn.err = ErrInvalidMaxResults
             /\ sn.calls = 0 /\ ~sn.req.sent
             /\ sn.resp = NoListResponse
        /\ (sn.maxResults = 0 \/ sn.maxResults >= 5) =>
             /\ sn.calls = 1 /\ sn.req.sent
             /\ sn.req.MaxResults = sn.maxResults
             /\ (~sn.fault /\ Len(sn.page) >= 1) =>
                  (sn.err = ErrNil /\ Len(sn.resp.Snapshots) >= 1)

\* C9 witness: a call with maxResults of 5 was sent on and returned a
\* snapshot of a provider that has some.
C9_Witness ==
    /\ sn.pc = "done" /\ sn.maxResults = 5 /\ sn.calls = 1
    /\ sn.err = ErrNil /\ Len(sn.resp.Snapshots) >= 1

\* C10: ListSnapshots fetches one provider page per call; when the page
\* holds no snapshot it returns ErrNotFound and no response, whatever token
\* came with the page; when the page holds some it returns them in the
\* provider's order, with the provider's token (the empty one when none).
C10_OnePage ==
    /\ sn.calls <= 1
    /\ (sn.pc = "done" /\ sn.calls = 1 /\ ~sn.fault) =>
          /\ Len(sn.page) = 0 => (sn.err = ErrNotFound /\ sn.resp = NoListResponse)
          /\ Len(sn.page) > 0 =>
               /\ sn.err = ErrNil
               /\ Len(sn.resp.Snapshots) = Len(sn.page)
               /\ \A i \in 1..Len(sn.page) :
                     /\ sn.resp.Snapshots[i].SnapshotID = sn.page[i].id
                     /\ sn.resp.Snapshots[i].SourceVolumeID = sn.page[i].vol
                     /\ sn.resp.Snapshots[i].ReadyToUse = (sn.page[i].state = "completed")
               /\ sn.resp.NextToken = sn.ptoken

\* C10 witness: the provider answered with an empty page and a token.
C10_Witness ==
    /\ sn.pc = "done" /\ sn.calls = 1 /\ ~sn.fault
    /\ Len(sn.page) = 0 /\ sn.ptoken # 0

\* C11: a DeleteDisk (a DeleteSnapshot) of an identifier the provider
\* reports as not found returns false with ErrNotFound, never the wrapped
\* error; any other provider error is returned wrapped, with false; true is
\* returned only when the provider's delete call succeeded; and a delete of
\* an identifier that is gone leaves the provider's volumes (snapshots) as
\* they are.
C11_DeleteStep ==
    /\ \A p \in Callers :
          (cd[p].pc = "idle" /\ cd'[p].op = "DeleteDisk") =>
             LET c == cd'[p]
                 gone == ~\E i \in 1..Len(volumes) : volumes[i].id = c.volID
             IN /\ c.pc = "done" /\ c.calls.delete = 1
                /\ (c.code = "InvalidVolume.NotFound") => (c.err = ErrNotFound /\ ~c.success)
                /\ (c.code \notin {"", "InvalidVolume.NotFound"}) =>
                      (c.err = ErrDeleteVolume /\ ~c.success)
                /\ c.success <=> (c.code = "" /\ c.err = ErrNil)
                /\ gone => (volumes' = volumes /\ c.err \in {ErrNotFound, ErrDeleteVolume})
                /\ c.success => ~\E i \in 1..Len(volumes') : volumes'[i].id = c.volID
    /\ (sn.pc = "idle" /\ sn'.op = "DeleteSnapshot") =>
          LET gone == ~\E i \in 1..Len(snapshots) : snapshots[i].id = sn'.snapshotID
          IN /\ sn'.pc = "done" /\ sn'.calls = 1
             /\ (sn'.code = "InvalidSnapshot.NotFound") =>
                   (sn'.err = ErrNotFound /\ ~sn'.success)
             /\ (sn'.code \notin {"", "InvalidSnapshot.NotFound"}) =>
                   (sn'.err = ErrDeleteSnapshot /\ ~sn'.success)
             /\ sn'.success <=> (sn'.code = "" /\ sn'.err = ErrNil)
             /\ gone => (snapshots' = snapshots
                         /\ sn'.err \in {ErrNotFound, ErrDeleteSnapshot})

C11_DeleteNotFound == [][C11_DeleteStep]_vars

\* C11 witness: a volume and a snapshot that the provider had at the start
\* have been deleted, and a second delete of each has returned ErrNotFound.
C11_Witness ==
    /\ \E p \in Callers :
          /\ cd[p].op = "DeleteDisk" /\ cd[p].pc = "done" /\ cd[p].err = ErrNotFound
          /\ cd[p].volID <= MaxVolumes
    /\ sn.op = "DeleteSnapshot" /\ sn.pc = "done" /\ sn.err = ErrNotFound
    /\ Len(snapshots) > 0 /\ \A i \in 1..Len(snapshots) : snapshots[i].id > sn.snapshotID


\* C12: AttachDisk and DetachDisk never create or delete a volume: no step of
\* either changes the provider's volumes, so that a GetDiskByID of the volume
\* that answers without an error, at any time before, during or after them,
\* returns the Disk of the volume as it was at the start (its ID, capacity
\* and zone), and a re-attach after a detach uses that same volume.
C12_Step ==
    /\ at' # at => volumes' = volumes /\ nextID' = nextID
    /\ \A p \in Callers :
          (cd'[p].op = "GetDiskByID" /\ cd'[p].pc = "done" /\ cd'[p].err = ErrNil)
          => /\ IndexOf(cd'[p].volID) # 0
             /\ cd'[p].disk.VolumeID = cd'[p].volID
             /\ cd'[p].disk.CapacityGiB = 1
             /\ cd'[p].disk.AvailabilityZone = "us-test-1a"
             /\ volumes'[IndexOf(cd'[p].volID)].size = cd'[p].disk.CapacityGiB
             /\ volumes'[IndexOf(cd'[p].volID)].zone = cd'[p].disk.AvailabilityZone

C12_AttachDetachKeepVolume == [][C12_Step]_vars

\* A DetachDisk returned nil, an AttachDisk after it attached the volume
\* again, and GetDiskByID answered for the volume.
C12_Witness ==
    /\ \E p \in Callers : at[p].op = "DetachDisk" /\ at[p].pc = "done" /\ at[p].err = ErrNil
    /\ \E p \in Callers : /\ at[p].op = "AttachDisk" /\ at[p].pc = "done"
                          /\ at[p].ret # "" /\ at[p].calls.attach = 1
    /\ \E a \in attachments : a.vol = 1 /\ a.state = "attached"
    /\ cd[1].op = "GetDiskByID" /\ cd[1].pc = "done" /\ cd[1].err = ErrNil /\ cd[1].volID = 1

\* C13: a GetDiskByName(name, c) made after CreateDisk(name, opts) with zone z
\* and capacity c returned a Disk d, the volume of d not deleted since,
\* returns a Disk with d's VolumeID, the zone z and c in GiB as its capacity.
\* A second CreateDisk of the name leaves two volumes with the tag and the
\* lookup fails with ErrMultiDisks: TLC finds this violated.
C13_CreateLookupRoundTrip ==
    \A p \in Callers :
        (cd[p].op = "GetDiskByName" /\ cd[p].pc = "done") =>
            \A r \in cd[p].returned :
                (/\ r.o.name = cd[p].o.name
                 /\ r.o.cap = cd[p].o.cap
                 /\ \E v \in cd[p].matched : v.id = r.disk.VolumeID)
                => /\ cd[p].err = ErrNil
                   /\ cd[p].disk.VolumeID = r.disk.VolumeID
                   /\ cd[p].disk.AvailabilityZone = r.o.zone
                   /\ cd[p].disk.CapacityGiB = BytesToGiB(r.o.cap)

\* C14: a DetachDisk whose DetachVolume call the provider answers with
\* IncorrectState, InvalidAttachment.NotFound or InvalidVolume.NotFound
\* returns ErrNotFound and has made no probe of the attachment; any other
\* error of the call is returned wrapped, without a probe either; and
\* DetachDisk returns nil only when the provider accepted the detach call
\* and a probe after it found the volume without an attachment.
C14_Step ==
    \A p \in Callers :
        (at'[p].op = "DetachDisk" /\ at'[p].pc = "done" /\ at[p].pc # "done"
            /\ at'[p].calls.detach > 0) =>
            LET c == at'[p]
            IN /\ c.calls.detach = 1
               /\ c.code \in {"IncorrectState", "InvalidAttachment.NotFound",
                              "InvalidVolume.NotFound"}
                    => c.err = ErrNotFound /\ c.calls.describe = 0 /\ c.probes = 0
               /\ (c.code # "" /\ c.code \notin {"IncorrectState",
                                                 "InvalidAttachment.NotFound",
                                                 "InvalidVolume.NotFound"})
                    => /\ c.err = ErrDetachVolume /\ c.err # ErrNotFound
                       /\ c.calls.describe = 0 /\ c.probes = 0
               /\ c.err = ErrNil
                    => /\ c.code = ""
                       /\ c.calls.describe >= 1
                       /\ ~\E a \in attachments : a.vol = c.vol

C15_Step ==
    \A p \in Callers :
        (at[p].pc = "idle" /\ at'[p].op \in {"AttachDisk", "DetachDisk"}) =>
            LET c == at'[p]
                none == \/ c.instances.err = "InvalidInstanceID.NotFound"
                        \/ c.instances.err = "" /\ c.instances.n = 0
                many == c.instances.err = "" /\ c.instances.n > 1
                untouched == /\ c.pc = "done"
                             /\ ~c.acquired /\ c.path = ""
                             /\ devices' = devices
                             /\ attachments' = attachments
                             /\ c.calls = [NoAttachCalls EXCEPT !.instances = 1]
            IN /\ none => c.err = ErrNotFound /\ untouched
               /\ many => c.err # ErrNotFound /\ c.err # ErrNil /\ untouched

C15_InstanceFirst == [][C15_Step]_vars

\* An AttachDisk for an instance the provider lists nothing for has returned
\* ErrNotFound, and a DetachDisk the provider listed two instances for has
\* returned its error.
C15_Witness ==
    \E p, q \in Callers :
        /\ at[p].op = "AttachDisk" /\ at[p].pc = "done" /\ at[p].node = "i-gone"
        /\ at[p].instances = [err |-> "", n |-> 0] /\ at[p].err = ErrNotFound
        /\ at[q].op = "DetachDisk" /\ at[q].pc = "done"
        /\ at[q].instances = [err |-> "", n |-> 2] /\ at[q].err = ErrMultiInstances

\* C16: a CreateDisk whose CreateVolume call the provider answers with
\* InvalidSnapshot.NotFound returns ErrNotFound; with any other error, the
\* creation error; with a response that has no volume ID, or no size (or a
\* size of 0), an error of its own.  In each of these cases the call has
\* ended without a probe of the volume and without a Disk.
C16_CreateErrors ==
    \A p \in Callers :
        (cd[p].op = "CreateDisk" /\ cd[p].calls.create > 0) =>
            LET c == cd[p]
                ended == /\ c.pc = "done"
                         /\ c.calls.describe = 0 /\ c.probes = 0
                         /\ c.disk = NoDisk
            IN /\ c.outcome = "InvalidSnapshot.NotFound" => c.err = ErrNotFound /\ ended
               /\ c.outcome = "error"
                    => c.err = ErrCreateVolume /\ c.err # ErrNotFound /\ ended
               /\ c.outcome = "noID" => c.err = ErrNoVolumeID /\ ended
               /\ c.outcome = "noSize" => c.err = ErrNoSize /\ ended
               /\ c.outcome \in {"InvalidSnapshot.NotFound", "error", "noID", "noSize", "ok"}

\* A CreateDisk from a snapshot the provider does not have has returned.
C16_Witness ==
    \E p \in Callers :
        /\ cd[p].op = "CreateDisk" /\ cd[p].pc = "done"
        /\ cd[p].o.snap = "snap-1" /\ cd[p].req.SnapshotId = "snap-1"
        /\ cd[p].outcome = "InvalidSnapshot.NotFound"
        /\ cd[p].err = ErrNotFound

\* C17: the polling loops look at the caller's context on each iteration:
\* once the context has ended no further probe is made, and the call ends
\* with a cancellation error, which is not the timeout error.  The loops
\* (wait.ExponentialBackoff, wait.Poll) never look at the context; the next
\* probe is made with the ended context: TLC finds this violated.
C17_NoProbeAfterCancel ==
    \A p \in Callers :
        at[p].cancelled =>
            /\ at[p].late = 0
            /\ at[p].pc = "done" => at[p].err = ErrCanceled /\ at[p].err # ErrWaitTimeout

\* C18: no call panics on a failure or an unexpected response of the
\* provider, a CreateDisk whose zone listing is empty and a ResizeDisk whose
\* accepted ModifyVolume response has no modification record included.
\* randomAvailabilityZone takes zones[0] of the empty listing and ResizeDisk
\* reads the state of the missing record: TLC finds this violated.
C18_NoPanic ==
    \A p \in Callers : cd[p].pc # "panic" /\ rz[p].pc # "panic"

\* C19: on every exit of AttachDisk after it acquired a Device (the volume
\* in use, another failure of the attach call, a failed or timed-out wait,
\* success) the Device has been released without force exactly once, or
\* tainted; it is never released with force, not released before the exit,
\* and a call that acquired no Device releases none.
C19_AttachReleases ==
    \A p \in Callers :
        at[p].op = "AttachDisk" =>
            /\ at[p].released <= 1 /\ at[p].forced = 0
            /\ (at[p].pc = "done" /\ at[p].acquired)
                 => /\ at[p].released = 1 \/ at[p].tainted
                    /\ at[p].tainted => (at[p].err # ErrNil /\ at[p].calls.describe > 0)
            /\ (at[p].pc # "done" \/ ~at[p].acquired)
                 => at[p].released = 0 /\ ~at[p].tainted

\* One AttachDisk met the volume in use and released its Device; another
\* waited in vain, tainted its Device and released it.
C19_Witness ==
    \E p, q \in Callers :
        /\ at[p].op = "AttachDisk" /\ at[p].pc = "done" /\ at[p].acquired
        /\ at[p].err = ErrAlreadyExists /\ at[p].released = 1 /\ ~at[p].tainted
        /\ at[q].op = "AttachDisk" /\ at[q].pc = "done" /\ at[q].acquired
        /\ at[q].err = ErrWaitTimeout /\ at[q].released = 1 /\ at[q].tainted

\* C20: once DetachDisk has the Device of the pair, it releases it with
\* force exactly once, on every outcome (an error mapped to ErrNotFound,
\* another error of the detach call, a failed or timed-out wait, success),
\* after which the allocator holds no binding of the pair; this also when the
\* allocator had no record of the pair (IsAlreadyAssigned false), and the
\* detach call is issued then as well.  Before its exit, and when it got no
\* Device, the call releases nothing.
C20_Step ==
    \A p \in Callers :
        at'[p].op = "DetachDisk" =>
            LET c == at'[p]
            IN /\ c.released <= 1 /\ c.forced = c.released /\ ~c.tainted
               /\ (c.pc = "done" /\ c.acquired)
                    => /\ c.released = 1 /\ c.forced = 1
                       /\ c.calls.detach = 1
               /\ (c.pc = "done" /\ at[p].pc # "done" /\ c.acquired)
                    => ~\E d \in devices' : d.node = c.node /\ d.vol = c.vol
               /\ (c.pc # "done" \/ ~c.acquired) => c.released = 0
               /\ (c.pc = "waitDetached" /\ ~c.assigned) => c.calls.detach = 1

C20_DetachReleases == [][C20_Step]_vars

\* A DetachDisk for a pair the allocator had no record of has issued the
\* detach call, seen the volume detached and released the Device with force.
C20_Witness ==
    \E p \in Callers :
        /\ at[p].op = "DetachDisk" /\ at[p].pc = "done" /\ at[p].acquired
        /\ ~at[p].assigned /\ at[p].calls.detach = 1 /\ at[p].err = ErrNil
        /\ at[p].released = 1 /\ at[p].forced = 1

\* C21: when the attach call AttachDisk issues fails, a VolumeInUse failure
\* is returned as ErrAlreadyExists, and any other failure is returned
\* wrapped with the Device tainted before AttachDisk returns.  AttachDisk
\* taints the Device when its wait fails and at no other place: TLC finds
\* this violated.
C21_AttachFailureTaints ==
    \A p \in Callers :
        (at[p].op = "AttachDisk" /\ at[p].pc = "done" /\ at[p].calls.attach = 1
            /\ at[p].code # "") =>
            /\ at[p].code = "VolumeInUse" => at[p].err = ErrAlreadyExists
            /\ at[p].code # "VolumeInUse"
                 => at[p].err = ErrAttachVolume /\ at[p].tainted

\* C22: when the wait for "attached" fails inside AttachDisk (a probe fails,
\* or the schedule is used up), the Device is tainted before the deferred
\* Release(false) runs, so that the allocator keeps the binding it holds for
\* the pair, tainted; the error of the wait is returned with an empty device path; and AttachDisk
\* has issued no second attach call.
C22_Step ==
    \A p \in Callers :
        (at'[p].op = "AttachDisk" /\ at[p].pc = "wait" /\ at'[p].pc = "done"
            /\ at'[p].err # ErrNil) =>
            LET c == at'[p]
            IN /\ c.tainted /\ c.released = 1 /\ c.forced = 0
               /\ Bound(c.node, c.vol) # {}
                    => \E d \in devices' : /\ d.node = c.node /\ d.vol = c.vol
                                           /\ d.path = c.path /\ d.tainted
               /\ c.ret = ""
               /\ c.err \in {ErrProvider, ErrWaitTimeout, ErrNotFound, ErrMultiDisks}
               /\ c.err = ErrWaitTimeout => c.probes = AttachBackoffSteps
               /\ c.calls.attach <= 1
               /\ c.calls.attach = at[p].calls.attach
               /\ attachments' = attachments

C22_WaitFailureTaints == [][C22_Step]_vars

\* An AttachDisk that issued its attach call waited the whole schedule in
\* vain and returned the timeout.
C22_Witness ==
    \E p \in Callers :
        /\ at[p].op = "AttachDisk" /\ at[p].pc = "done"
        /\ at[p].calls.attach = 1 /\ at[p].probes = AttachBackoffSteps
        /\ at[p].err = ErrWaitTimeout /\ at[p].tainted /\ at[p].ret = ""
        /\ \E d \in devices : d.node = at[p].node /\ d.vol = at[p].vol /\ d.tainted

\* The items of pages i..Len(script) of a script, in page-then-intra-page order.
RECURSIVE ItemsFrom(_, _)
ItemsFrom(script, i) ==
    IF i > Len(script) THEN <<>>
    ELSE [j \in 1..script[i] |-> <<i, j>>] \o ItemsFrom(script, i + 1)

RECURSIVE SumSeq(_)
SumSeq(q) == IF q = <<>> THEN 0 ELSE Head(q) + SumSeq(Tail(q))

\* C23: getVolume, getInstance and getSnapshot fetch page after page, the
\* first request without a token and each later one with the token of the
\* response before it, until a response has an empty token or a call fails.
\* The items are accumulated in page-then-intra-page order, their number is
\* the sum of the pages' counts, and the exactly-one check is made on the
\* total (one item on each of two pages gives the multiple-found error);
\* a failed call ends the loop with its error and without a result.
C23_PagedLookup ==
    LET c == pl
        n == Len(c.sent)
        failed == c.failAt \in 1..n
    IN c.pc # "idle" =>
        /\ \A i \in 1..n : c.sent[i] = i - 1
        /\ n <= Len(c.script)
        /\ c.counts = [i \in 1..Len(c.counts) |-> c.script[i]]
        /\ Len(c.acc) = SumSeq(c.counts)
        /\ c.pc = "fetch" => Len(c.counts) = n /\ n < Len(c.script) /\ ~failed
        /\ (c.pc = "done" /\ ~failed)
             => /\ n = Len(c.script) /\ Len(c.counts) = n
                /\ c.acc = ItemsFrom(c.script, 1)
                /\ Len(c.acc) > 1
                     => c.err = (CASE c.kind = "volume" -> ErrMultiDisks
                                   [] c.kind = "instance" -> ErrMultiInstances
                                   [] OTHER -> ErrMultiSnapshots)
                /\ Len(c.acc) = 0 => c.err = ErrNotFound
                /\ Len(c.acc) = 1 => c.err = ErrNil /\ c.item = c.acc[1]
                /\ c.found <=> (c.err = ErrNil)
                /\ ~c.found => c.item = NoItem
        /\ (c.pc = "done" /\ failed)
             => /\ n = c.failAt /\ Len(c.counts) = n - 1
                /\ c.err # ErrNil /\ ~c.found /\ c.item = NoItem
                /\ c.kind # "instance" => c.err = ErrProvider
                /\ c.kind = "instance" => c.err \in {ErrNotFound, ErrListInstances}

\* A lookup of a volume met one volume on each of two pages, with an empty
\* page between them.
C23_Witness ==
    /\ pl.pc = "done" /\ pl.kind = "volume" /\ pl.failAt = 0
    /\ pl.script = <<1, 0, 1>> /\ pl.sent = <<0, 1, 2>>
    /\ pl.acc = <<<<1, 1>>, <<3, 1>>>>
    /\ pl.err = ErrMultiDisks

\* C24: a probe of WaitForAttachmentState reports done exactly when the
\* volume has no attachment and the target is "detached", or some attachment
\* that has a state has the target as its state; an attachment without a
\* state is passed over, and in every other case the probe reports not done.
C24_ProbeDone ==
    pv.pc = "probed" =>
        LET withState == {i \in 1..Len(pv.states) : pv.states[i] # ""}
        IN /\ pv.done <=> \/ pv.states = <<>> /\ pv.state = "detached"
                          \/ \E i \in withState : pv.states[i] = pv.state
           /\ (withState = {} /\ pv.states # <<>>) => ~pv.done

\* A probe for "attached" on a volume whose first attachment has no state
\* and whose second is attached has reported done.
C24_Witness ==
    /\ pv.pc = "probed" /\ pv.state = "attached"
    /\ pv.states = <<"", "attached">> /\ pv.done

\* C25: in each of the three polling loops (the volume-available wait of
\* CreateDisk, WaitForAttachmentState, the resize wait) a probe that returns
\* an error ends the loop at that probe and the caller gets the error: the
\* attach and the resize call return it as it is, CreateDisk returns its
\* "failed to get an available volume" error around it and no Disk.  A call
\* that has returned makes no further probe.
C25_Step ==
    \A p \in {1} :
       /\ (cd'[p].probes = cd[p].probes + 1 /\ cd'[p].perr # ErrNil)
             => /\ cd'[p].pc = "done"
                /\ cd'[p].waitErr = cd'[p].perr
                /\ cd'[p].err = ErrWaitAvailable
                /\ cd'[p].disk = NoDisk
       /\ (at'[p].probes = at[p].probes + 1 /\ at'[p].perr # ErrNil)
             => /\ at'[p].pc = "done"
                /\ at'[p].err = at'[p].perr
                /\ at'[p].ret = ""
       /\ (rz'[p].probes = rz[p].probes + 1 /\ rz'[p].perr # ErrNil)
             => /\ rz'[p].pc = "done"
                /\ rz'[p].err = rz'[p].perr
                /\ rz'[p].size = 0
       /\ cd[p].pc = "done" => cd'[p].probes = cd[p].probes
       /\ at[p].pc = "done" => at'[p].probes = at[p].probes
       /\ rz[p].pc = "done" => rz'[p].probes = rz[p].probes

C25_ProbeErrorEndsLoop == [][C25_Step]_vars

\* The second probe of the volume-available wait failed, and CreateDisk
\* returned with that error as the error of the wait.
C25_Witness ==
    /\ cd[1].pc = "done"
    /\ cd[1].probes = 2
    /\ cd[1].perr = ErrProvider
    /\ cd[1].waitErr = ErrProvider
    /\ cd[1].err = ErrWaitAvailable

\* C26: every polling loop ends.  WaitForAttachmentState makes at most 13
\* probes, the resize wait at most 20, the volume-available wait at most the
\* probes its 60s at 3s intervals allow; the probe that uses the schedule up
\* ends the loop, and when that probe reported neither done nor an error the
\* loop ends with the timeout error (the resize call then returns size 0 with
\* it, CreateDisk no Disk).  A timeout is the outcome of no earlier probe.
C26_LoopsEnd ==
    \A p \in {1} :
       /\ at[p].probes <= AttachBackoffSteps
       /\ at[p].probes = AttachBackoffSteps
             => /\ at[p].pc = "done"
                /\ (at[p].perr = ErrNil /\ at[p].ret = "")
                      => at[p].err = ErrWaitTimeout
       /\ at[p].err = ErrWaitTimeout => at[p].probes = AttachBackoffSteps
       /\ rz[p].probes <= ResizeBackoffSteps
       /\ rz[p].probes = ResizeBackoffSteps
             => /\ rz[p].pc = "done"
                /\ (rz[p].perr = ErrNil /\ rz[p].path \notin {"polled-own", "polled-recovered"})
                      => rz[p].err = ErrWaitTimeout /\ rz[p].size = 0
       /\ rz[p].err = ErrWaitTimeout => rz[p].probes = ResizeBackoffSteps
       /\ cd[p].probes <= WaitForVolumeProbes
       /\ cd[p].probes = WaitForVolumeProbes
             => /\ cd[p].pc = "done"
                /\ (cd[p].perr = ErrNil /\ cd[p].seen # "available")
                      => /\ cd[p].waitErr = ErrWaitTimeout
                         /\ cd[p].err = ErrWaitAvailable
                         /\ cd[p].disk = NoDisk
       /\ cd[p].waitErr = ErrWaitTimeout => cd[p].probes = WaitForVolumeProbes

\* The resize wait used its 20 probes up, none of them done or failed, and
\* ResizeDisk returned size 0 with the timeout error.
C26_Witness ==
    /\ rz[1].pc = "done"
    /\ rz[1].probes = ResizeBackoffSteps
    /\ rz[1].perr = ErrNil
    /\ rz[1].err = ErrWaitTimeout
    /\ rz[1].size = 0

\* C27: CreateDisk returns a Disk only after its provider create call
\* succeeded and a later probe saw the new volume in state "available"; the
\* Disk has the ID and the size of the volume the provider made, the zone
\* CreateDisk resolved and the source snapshot asked for.  A probe that finds
\* the volume without a State, or in another state, does not end the wait
\* (unless it is the last probe of the wait).
C27_Step ==
    \A p \in Callers :
       /\ (cd'[p].op = "CreateDisk" /\ cd'[p].disk # NoDisk)
             => /\ cd'[p].pc = "done"
                /\ cd'[p].err = ErrNil
                /\ cd'[p].outcome = "ok"
                /\ cd'[p].calls.create = 1
                /\ cd'[p].probes >= 1
                /\ cd'[p].perr = ErrNil
                /\ cd'[p].seen = "available"
                /\ cd'[p].disk.SnapshotID = cd'[p].o.snap
                /\ cd'[p].disk.AvailabilityZone = cd'[p].zone
                /\ cd'[p].o.zone # "" => cd'[p].disk.AvailabilityZone = cd'[p].o.zone
                /\ \E i \in 1..Len(volumes') :
                      /\ volumes'[i].id = cd'[p].disk.VolumeID
                      /\ volumes'[i].size = cd'[p].disk.CapacityGiB
                      /\ volumes'[i].zone = cd'[p].disk.AvailabilityZone
                      /\ volumes'[i].snap = cd'[p].disk.SnapshotID
       /\ (/\ cd[p].op = "CreateDisk"
           /\ cd'[p].probes = cd[p].probes + 1
           /\ cd'[p].perr = ErrNil
           /\ cd'[p].seen # "available"
           /\ cd'[p].probes < WaitForVolumeProbes)
             => cd'[p].pc = "wait" /\ cd'[p].disk = NoDisk

C27_DiskAfterAvailable == [][C27_Step]_vars

\* CreateDisk returned a Disk of a volume made from a snapshot, after a probe
\* that found the volume in another state and one that found it available.
C27_Witness ==
    \E p \in Callers :
       /\ cd[p].op = "CreateDisk"
       /\ cd[p].disk # NoDisk
       /\ cd[p].probes >= 2
       /\ cd[p].seen = "available"
       /\ cd[p].disk.SnapshotID # ""

\* C28: a ResizeDisk call that needs a modification and holds one (the one
\* the provider made for it, or the one in flight it recovered after
\* IncorrectModificationState) in state "completed" or "optimizing" returns
\* the target size of that modification and makes no probe; with one in
\* another state it polls, a probe that finds the latest modification in
\* "completed" or "optimizing" ends the poll with that modification's target
\* size and no other probe ends it with a size; a modify call that fails
\* with another error ends the call with the wrapped error, size 0 and no
\* probe.
C28_Step ==
    \A p \in Callers :
       LET v == rz[p].vol
           latest == mods[v][Len(mods[v])]
           held == rz'[p].mod
           probed == rz'[p].probes = rz[p].probes + 1
       IN /\ (rz[p].pc \in {"modify", "latest"} /\ rz'[p].pc = "done"
                 /\ rz'[p].err = ErrNil)
                => /\ held.state \in {"completed", "optimizing"}
                   /\ rz'[p].size = held.target
                   /\ rz'[p].path = IF rz[p].pc = "modify" THEN "own" ELSE "recovered"
                   /\ rz[p].pc = "latest" => held = latest
                   /\ rz'[p].probes = 0
                   /\ rz'[p].calls.mods = IF rz[p].pc = "modify" THEN 0 ELSE 1
          /\ (rz[p].pc \in {"modify", "latest"} /\ rz'[p].pc = "poll")
                => /\ held.state \notin {"completed", "optimizing"}
                   /\ rz'[p].probes = 0
          /\ (rz[p].pc = "poll" /\ probed /\ rz'[p].perr = ErrNil)
                => IF latest.state \in {"completed", "optimizing"}
                   THEN /\ rz'[p].pc = "done"
                        /\ rz'[p].err = ErrNil
                        /\ rz'[p].size = latest.target
                   ELSE /\ rz'[p].size = 0
                        /\ rz'[p].pc = "done" => rz'[p].err = ErrWaitTimeout
          /\ (rz[p].pc = "modify" /\ rz'[p].err = ErrModifyVolume)
                => /\ rz'[p].pc = "done"
                   /\ rz'[p].size = 0
                   /\ rz'[p].probes = 0
                   /\ rz'[p].calls.mods = 0
          /\ rz'[p].probes > 0 => rz'[p].calls.modify = 1

C28_ResizeReturnsTarget == [][C28_Step]_vars

\* A ResizeDisk call recovered a modification in flight, polled more than
\* once and returned the target size of the modification it then found in a
\* final state, which is not the size it asked for.
C28_Witness ==
    \E p \in Callers :
       /\ rz[p].pc = "done"
       /\ rz[p].path = "polled-recovered"
       /\ rz[p].probes >= 2
       /\ rz[p].err = ErrNil
       /\ rz[p].size = 2
       /\ rz[p].new = 3

\* C29: CreateSnapshot makes one provider call, the CreateSnapshot call, and
\* no lookup before it; the tag specification of the request holds one tag
\* (k, v) for every key k with value v of SnapshotOptions.Tags and no other
\* tag, with any number of tags.
C29_ExactTags ==
    sn.op = "CreateSnapshot"
       => /\ sn.calls = 1
          /\ ~sn.req.sent
          /\ Len(sn.reqTags) = Cardinality(DOMAIN sn.tags)
          /\ {<<sn.reqTags[i].Key, sn.reqTags[i].Value>> : i \in DOMAIN sn.reqTags}
                = {<<k, sn.tags[k]>> : k \in DOMAIN sn.tags}

\* C30: every probe of the volume-available wait of CreateDisk starts its
\* lookup at the first page: while the wait goes on, the describe request the
\* next probe is made with holds no continuation token, whatever tokens the
\* probes before it followed.
C30_ProbeFromFirstPage ==
    \A p \in Callers :
       (cd[p].op = "CreateDisk" /\ cd[p].pc = "wait") => cd[p].token = 0

\* C31: every ResizeDisk call that returns without an error returns a size
\* of at least the size asked for, rounded up to GiB, also when its modify
\* call was rejected with IncorrectModificationState and the size is the
\* target of the modification in flight it found in its place.
C31_ResizeAtLeastRequested ==
    \A p \in Callers :
       (rz[p].pc = "done" /\ rz[p].err = ErrNil)
          => rz[p].size >= RoundUpGiB(rz[p].bytes)

\* C32: when AttachDisk(v, n) returns a device path without an error, the
\* provider holds an attachment of volume v to instance n in state
\* "attached".
C32_Step ==
    \A p \in Callers :
       (/\ at[p].pc # "done"
        /\ at'[p].pc = "done"
        /\ at'[p].op = "AttachDisk"
        /\ at'[p].err = ErrNil
        /\ at'[p].ret # "")
          => \E a \in attachments' :
                a.vol = at'[p].vol /\ a.node = at'[p].node /\ a.state = "attached"

C32_AttachedToInstance == [][C32_Step]_vars

\* C33: when CreateDisk returns an error, no volume the call created remains
\* at the provider: neither the volume whose ID the call got and waited for,
\* nor the volume the provider made for a request whose response lacked the
\* ID or the size (the volume that carries the name of the request).
C33_NoOrphanedVolume ==
    \A p \in Callers :
       (cd[p].op = "CreateDisk" /\ cd[p].pc = "done" /\ cd[p].err # ErrNil)
          => /\ cd[p].volID # 0
                   => ~\E i \in 1..Len(volumes) : volumes[i].id = cd[p].volID
             /\ cd[p].outcome \in {"noID", "noSize"}
                   => ~\E i \in 1..Len(volumes) : volumes[i].name = cd[p].req.Name

====
